---- MODULE Spec2Model ----
(***************************************************************************)
(* Self-update / rollback controller of app/services/updater.py.           *)
(*                                                                         *)
(* The deployment is a git working tree (HEAD, the remote-tracking ref     *)
(* origin/<branch>), the remote repository (the upstream tip), the State   *)
(* Store file and the update log.  run_update, rollback and                *)
(* get_update_status are modelled one external command (or one file        *)
(* access) per action; every command may exit non-zero, time out or be     *)
(* missing, every log append and every State Store write may fail with an  *)
(* I/O error.                                                              *)
(***************************************************************************)
EXTENDS Naturals, Sequences, FiniteSets, TLC

\* ------------------------------------------------------------------ bounds
\* Number of controller operations started in one behaviour.
MaxOps == 2
\* Number of times the remote branch advances in one behaviour.
MaxAdvance == 1
\* Number of commits between B and C on the remote branch.
GapLen == 31

\* ------------------------------------------------------- revisions, files
\* History: A <- B <- m1 <- ... <- m31 <- C on the remote branch; X is a local
\* commit on top of A (history diverged from B and C).  HEAD and the branch
\* tips only ever sit on A, B, C or X.
Commits == {"A", "B", "C", "X"}
None == "none"
Mid(i) == "m" \o ToString(i)
MidCommits == {Mid(i) : i \in 1..GapLen}

ParentOf ==
  [c \in Commits \cup MidCommits |->
     CASE c = "B" -> "A"
       [] c = "X" -> "A"
       [] c = "C" -> IF GapLen = 0 THEN "B" ELSE Mid(GapLen)
       [] c = "A" -> None
       [] OTHER -> LET i == CHOOSE j \in 1..GapLen : c = Mid(j)
                   IN IF i = 1 THEN "B" ELSE Mid(i - 1)]
Parent(c) == IF c \in DOMAIN ParentOf THEN ParentOf[c] ELSE None

RECURSIVE IsAncestor(_, _)
\* a is b or an ancestor of b.
IsAncestor(a, b) ==
  IF b = None THEN FALSE ELSE IF a = b THEN TRUE ELSE IsAncestor(a, Parent(b))

\* Paths that differ between the root tree (A) and the tree of commit c.
\* A path is the tuple of its segments.
ChangedSince(c) ==
  CASE c = "B" -> {<<"requirements.txt">>}
    [] c = "C" -> {<<"requirements.txt">>, <<"pnpm-lock.yaml">>,
                   <<"app", "migrations", "0002.py">>}
    [] c = "X" -> {<<"README.md">>}
    [] OTHER -> {}

\* git diff --name-only a..b: the paths whose content differs between the trees.
DiffNames(a, b) ==
  (ChangedSince(a) \ ChangedSince(b)) \cup (ChangedSince(b) \ ChangedSince(a))

\* Files present in every tree of the deployment, and the tools on PATH.
TreeFiles == {<<"requirements.txt">>, <<"pnpm-lock.yaml">>, <<"alembic.ini">>,
              <<"README.md">>}
ToolsOnPath == {"pnpm", "npm"}

\* ---------------------------------------------------------------- strings
\* str.strip() on the strings the model uses.
Strip(s) ==
  CASE s = " " -> ""
    [] s = " B " -> "B"
    [] s = " Main " -> "Main"
    [] OTHER -> s

\* str.lower() on the strings the model uses.
Lower(s) ==
  CASE s = "Main" -> "main" [] s = "NONE" -> "none" [] s = "Migrations" -> "migrations"
    [] OTHER -> s

\* JSON null in the State Store; Python's `x or ""`.
JNull == "<null>"
OrEmpty(v) == IF v = JNull \/ v = None THEN "" ELSE v

\* datetime.now().isoformat() of the n-th operation.
Stamp(n) == CASE n = 0 -> "t0" [] n = 1 -> "t1" [] n = 2 -> "t2" [] n = 3 -> "t3"
              [] n = 4 -> "t4" [] OTHER -> "t5"

\* ------------------------------------------------------------ error texts
ErrNotRepo == "not a git repository"
ErrCannotResolve == "Cannot resolve current/remote commit"
ErrRollbackUnknown == "Rollback commit is not known"
ErrCustomEmpty == "CUSTOM_RESTART_CMD is empty"
\* shlex.split on a command line with an unclosed quote
ErrUnparseable == "ValueError: No closing quotation"
Unparseable == "'restart.sh"
ErrUnknownMode == "Unknown restart mode"
ErrTimeout == "Command timed out"
ErrCommand == "command failed"
ErrLogIO == "OSError: update.log"
ErrEncode == "UnicodeEncodeError: surrogates not allowed"
ErrStateIO == "OSError: update_state.json"

\* ------------------------------------------------------- command outcomes
\* subprocess.run: exit 0, exit non-zero, or an exception ("timeout":
\* TimeoutExpired, which _run_command turns into UpdateError; a missing
\* executable raises OSError from the same call and takes the same path).
Outcomes == {"ok", "fail", "timeout"}
\* _run_command with a log path: also the append before the command, or the
\* append of its output after it, may raise OSError.
LoggedOutcomes == Outcomes \cup {"logpre", "logpost"}
\* _append_log alone.
LogOutcomes == {"ok", "ioerror"}

\* _run_command raises for this outcome whatever `check` is.
Raises(o) == o \in {"timeout", "logpre", "logpost"}
\* The command ran to a zero exit (its effect is applied).
Succeeded(o) == o \in {"ok", "logpost"}
\* The exception text of a raising outcome; a non-zero exit in strict mode.
ErrOf(o) ==
  CASE o = "timeout" -> ErrTimeout
    [] o \in {"logpre", "logpost", "ioerror"} -> ErrLogIO
    [] OTHER -> ErrCommand

\* ------------------------------------------------------------- settings
\* settings.update_branch, settings.service_restart_mode and
\* settings.custom_restart_cmd as configured.
SettingsChoices ==
  { [update_branch |-> "", restart |-> [mode |-> "NONE", cmd |-> ""]],
    [update_branch |-> "", restart |-> [mode |-> "", cmd |-> ""]],
    [update_branch |-> "dev", restart |-> [mode |-> "custom", cmd |-> "restart.sh"]],
    [update_branch |-> "", restart |-> [mode |-> "custom", cmd |-> " "]],
    [update_branch |-> "", restart |-> [mode |-> "custom", cmd |-> Unparseable]],
    [update_branch |-> " Main ", restart |-> [mode |-> "bogus", cmd |-> ""]] }
Branches == {"main", "master", "dev"}
\* The checked-out branch, and the branches that exist on the remote.
CurrentBranch == "main"
TrackedBranches == {"main", "dev"}

\* (settings.service_restart_mode or "systemd").strip().lower()
RestartMode(raw) == Lower(Strip(IF raw = "" THEN "systemd" ELSE raw))
\* RestartRequired that asks for a restart whatever the mode.
RestartRequiredAlways(raw) == TRUE

\* restart_mode not in {"", "none"}
RestartRequired(raw) == RestartMode(raw) \notin {"", "none"}

\* ---------------------------------------------------------- State Store
EmptyDict == [k \in {} |-> ""]
\* dict.get(k)
Get(d, k) == IF k \in DOMAIN d THEN d[k] ELSE None
\* dict.update(new)
Update(d, new) ==
  [k \in DOMAIN d \cup DOMAIN new |-> IF k \in DOMAIN new THEN new[k] ELSE d[k]]

AbsentFile == [kind |-> "absent", data |-> EmptyDict]
CorruptFile == [kind |-> "corrupt", data |-> EmptyDict]
NonObjectFile == [kind |-> "nonobject", data |-> EmptyDict]
\* A file that exists (exists() is true) but whose read_text raises; d is the
\* record its bytes hold.
UnreadableFile(d) == [kind |-> "unreadable", data |-> d]
JsonFile(d) == [kind |-> "json", data |-> d]

\* _load_state that hands back whatever record the file's bytes hold.
LoadStateRaw(file) == file.data

\* _load_state: {} when the file is absent, unparseable or not an object.
LoadState(file) == IF file.kind = "json" THEN file.data ELSE EmptyDict
\* A string holding a lone surrogate: json.loads reads it from its "\ud800"
\* escape, json.dumps(ensure_ascii=False) writes it raw, and encoding that
\* text as UTF-8 raises UnicodeEncodeError.
Surrogate == "<lone surrogate>"
Encodable(d) == \A k \in DOMAIN d : d[k] # Surrogate

\* ------------------------------------------------------ branch resolution
RECURSIVE Dedup(_, _)
\* The non-empty items of `items` appended to `acc`, each once.
Dedup(items, acc) ==
  IF items = <<>> THEN acc
  ELSE LET value == Strip(Head(items))
       IN Dedup(Tail(items),
                IF value # "" /\ ~(\E i \in 1..Len(acc) : acc[i] = value)
                THEN Append(acc, value) ELSE acc)

RECURSIVE FirstExisting(_, _, _)
FirstExisting(candidates, exists, default) ==
  IF candidates = <<>> THEN default
  ELSE IF Head(candidates) \in exists THEN Head(candidates)
  ELSE FirstExisting(Tail(candidates), exists, default)

\* ResolveBranch that tries "main" before the current branch.
ResolveBranchMainFirst(update_branch, cur1, cur2, exists) ==
  LET preferred == IF Strip(update_branch) # "" THEN Strip(update_branch) ELSE cur1
      candidates == Dedup(<<preferred, "main", cur2, "master">>, <<>>)
  IN FirstExisting(candidates, exists, IF preferred # "" THEN preferred ELSE "main")

\* resolve_branch: cur1 and cur2 are the results of its two
\* get_current_branch calls, exists the set of branches whose
\* origin/<branch> probe exits 0.
ResolveBranch(update_branch, cur1, cur2, exists) ==
  LET preferred == IF Strip(update_branch) # "" THEN Strip(update_branch) ELSE cur1
      candidates == Dedup(<<preferred, cur2, "main", "master">>, <<>>)
  IN FirstExisting(candidates, exists, IF preferred # "" THEN preferred ELSE "main")

\* ------------------------------------------------------ post-update steps
LowerSeg(seg) == Lower(seg)
EndsWithMigrations(seg) ==
  LowerSeg(seg) \in {"migrations", "data_migrations", "immigrations"}
EndsWithAlembic(seg) == LowerSeg(seg) \in {"alembic"}
\* "migrations/" in item or item.endswith("/alembic.ini") or "alembic/" in item
MigrationMarker(path) ==
  \/ \E i \in 1..(Len(path) - 1) : EndsWithMigrations(path[i])
  \/ (Len(path) >= 2 /\ LowerSeg(path[Len(path)]) = "alembic.ini")
  \/ \E i \in 1..(Len(path) - 1) : EndsWithAlembic(path[i])

\* _install_requirements_if_needed: the command it runs, or None.
RequirementsCmd(changed, tree) ==
  IF <<"requirements.txt">> \in changed /\ <<"requirements.txt">> \in tree
  THEN "pip install -r requirements.txt" ELSE None

\* NodeCmd that tries npm before pnpm.
NodeCmdNpmFirst(changed, tree, tools) ==
  IF <<"package-lock.json">> \in changed /\ <<"package-lock.json">> \in tree
     /\ "npm" \in tools
  THEN "npm ci"
  ELSE IF <<"pnpm-lock.yaml">> \in changed /\ <<"pnpm-lock.yaml">> \in tree
          /\ "pnpm" \in tools
  THEN "pnpm install --frozen-lockfile"
  ELSE IF <<"yarn.lock">> \in changed /\ <<"yarn.lock">> \in tree /\ "yarn" \in tools
  THEN "yarn install --frozen-lockfile"
  ELSE None

\* _install_node_if_needed: the command it runs, or None.
NodeCmd(changed, tree, tools) ==
  IF <<"pnpm-lock.yaml">> \in changed /\ <<"pnpm-lock.yaml">> \in tree /\ "pnpm" \in tools
  THEN "pnpm install --frozen-lockfile"
  ELSE IF <<"package-lock.json">> \in changed /\ <<"package-lock.json">> \in tree
          /\ "npm" \in tools
  THEN "npm ci"
  ELSE IF <<"yarn.lock">> \in changed /\ <<"yarn.lock">> \in tree /\ "yarn" \in tools
  THEN "yarn install --frozen-lockfile"
  ELSE None

\* _run_migrations_if_needed: the command it runs, or None.
MigrationCmd(changed, tree) ==
  IF ~(\E p \in changed : MigrationMarker(p)) THEN None
  ELSE IF <<"alembic.ini">> \in tree THEN "alembic upgrade head"
  ELSE IF <<"manage.py">> \in tree THEN "manage.py migrate --noinput"
  ELSE None

\* ----------------------------------------------------------------- rollback
\* RollbackCandidate with the two stored keys consulted in the other order.
RollbackCandidateGoodFirst(target, state) ==
  LET t == Strip(OrEmpty(target))
      p == Strip(OrEmpty(Get(state, "previous_head")))
      l == Strip(OrEmpty(Get(state, "last_known_good")))
  IN IF t # "" THEN t ELSE IF l # "" THEN l ELSE p

\* (target_commit or "").strip() or str(state.get("previous_head") or "").strip()
\*   or str(state.get("last_known_good") or "").strip()
RollbackCandidate(target, state) ==
  LET t == Strip(OrEmpty(target))
      p == Strip(OrEmpty(Get(state, "previous_head")))
      l == Strip(OrEmpty(Get(state, "last_known_good")))
  IN IF t # "" THEN t ELSE IF p # "" THEN p ELSE l

RollbackTargets == {None, " ", " B ", "Z"}
\* target_commit before line 660 has read it
Unread == "?"

\* ---------------------------------------------------------------- state
VARIABLES
  head,        \* HEAD of the working tree
  originRef,   \* the remote-tracking ref origin/<branch> (all tracked branches)
  upstream,    \* the tip of the branch in the remote repository
  advances,    \* how often the remote branch advanced
  stateFile,   \* the State Store file
  isRepo,      \* the deployment directory is a git working tree
  cfg,         \* settings: update_branch, restart mode and custom command
  op,          \* the operation in progress: idle, update, rollback, status
  pc,          \* its position
  loc,         \* its local variables
  res,         \* the result it returned
  exc,         \* the exception that left it, or None
  cmds,        \* the external commands it ran, in order
  head0,       \* HEAD when it was called
  store0,      \* the State Store file when it was called
  opCount,     \* operations started so far
  lastP,       \* previous_head written by the last successful run_update, or
               \* None once a later rollback has succeeded
  prev         \* the preceding operation, when it was a run_update that moved
               \* HEAD and did not return ok=true: the stage that failed, HEAD
               \* and the State Store before it, and whether it returned

vars == <<head, originRef, upstream, advances, stateFile, isRepo, cfg,
          op, pc, loc, res, exc, cmds, head0, store0, opCount, lastP, prev>>
env == <<upstream, advances, isRepo, cfg>>

NoPrev == [stage |-> "", from |-> None, store |-> AbsentFile, returned |-> FALSE]

NoLoc ==
  [before |-> None, remote |-> None, branch |-> "", changed |-> {}, steps |-> <<>>,
   rr |-> FALSE, rp |-> FALSE, after |-> None, err |-> None, exec |-> FALSE,
   target |-> Unread, candidate |-> "", st |-> EmptyDict, post |-> <<>>,
   errors |-> <<>>, release |-> None, changelog |-> None, pull |-> "", stage |-> "",
   fetch |-> ""]
\* loc.pull is the outcome of the call's git pull ("" before it); loc.stage
\* names the stage whose command raised: "post" (a helper of
\* run_post_update_steps) or "restart" (restart_service), "" otherwise.
\* loc.fetch is the outcome of run_update's git fetch ("" before it).

NoRes ==
  [kind |-> "none", ok |-> FALSE, branch |-> "", target_commit |-> None,
   before |-> None, after |-> None, remote |-> None, changed_files |-> {},
   steps |-> <<>>, restart_required |-> FALSE, restart_performed |-> FALSE,
   error |-> None, current |-> None, has_updates |-> FALSE, commits |-> <<>>,
   errors |-> <<>>, release |-> None, changelog_excerpt |-> None]

\* lines 600-607: the keys run_update merges into the stored record
UpdateKeys(stamp, branch, before, after) ==
  [k \in {"updated_at", "branch", "previous_head", "last_known_good"} |->
     CASE k = "updated_at" -> stamp
       [] k = "branch" -> branch
       [] k = "previous_head" -> before
       [] OTHER -> IF after # None THEN after ELSE before]

InitStores ==
  { AbsentFile, CorruptFile,
    JsonFile([k \in {"last_known_good", "note"} |->
              IF k = "note" THEN Surrogate ELSE "A"]),
    JsonFile([k \in {"previous_head", "last_known_good", "schema2"} |->
              CASE k = "previous_head" -> JNull
                [] k = "last_known_good" -> " B "
                [] OTHER -> "v2"]),
    JsonFile([k \in {"previous_head", "last_known_good"} |->
              IF k = "previous_head" THEN " " ELSE ""]) }

Init ==
  /\ isRepo \in BOOLEAN
  /\ upstream = "B"
  /\ advances = 0
  /\ cfg \in SettingsChoices
  /\ \/ /\ head \in IF isRepo THEN {"A", "B", "X"} ELSE {"A"}
        /\ originRef \in IF isRepo THEN {"A", "B"} ELSE {"A"}
        /\ stateFile \in InitStores
        /\ lastP = None
     \/ \* the State Store holds a JSON list, or cannot be read
        /\ isRepo
        /\ head = "B"
        /\ originRef \in {"A", "B"}
        /\ stateFile \in { NonObjectFile,
                           UnreadableFile([k \in {"previous_head", "last_known_good"} |->
                                           IF k = "previous_head" THEN "A" ELSE "B"]) }
        /\ lastP = None
     \/ \* the working tree holds commits the remote branch does not have yet
        /\ isRepo
        /\ head = "C"
        /\ originRef = "B"
        /\ stateFile = AbsentFile
        /\ lastP = None
     \/ \* a successful run_update from A to B has been recorded
        /\ isRepo
        /\ head = "B"
        /\ originRef = "B"
        /\ stateFile = JsonFile(UpdateKeys(Stamp(0), "main", "A", "B"))
        /\ lastP = "A"
  /\ op = "idle"
  /\ pc = "idle"
  /\ loc = NoLoc
  /\ res = NoRes
  /\ exc = None
  /\ cmds = <<>>
  /\ head0 = head
  /\ store0 = stateFile
  /\ opCount = 0
  /\ prev = NoPrev

\* ---------------------------------------------------------- restart_service
\* What restart_service does for the configured mode: "skip" returns at once,
\* "error" raises `text`, "run" runs one strict command, "systemd" tries
\* sudo -n systemctl first (not strict) and then systemctl (strict).
RestartPlan(restart) ==
  LET mode == RestartMode(restart.mode)
  IN CASE mode \in {"", "none"} -> [kind |-> "skip", text |-> "restart skipped"]
       [] mode = "systemd" -> [kind |-> "systemd", text |-> "systemd restart"]
       [] mode = "docker_compose" -> [kind |-> "run", text |-> "docker compose up -d --build"]
       [] mode = "pm2" -> [kind |-> "run", text |-> "pm2 restart"]
       [] mode = "custom" ->
            IF Strip(restart.cmd) = "" THEN [kind |-> "error", text |-> ErrCustomEmpty]
            ELSE IF Strip(restart.cmd) = Unparseable
            THEN [kind |-> "error", text |-> ErrUnparseable]
            ELSE [kind |-> "run", text |-> "custom restart"]
       [] OTHER -> [kind |-> "error", text |-> ErrUnknownMode]

\* ------------------------------------------------------- shared fragments
\* CommitInfoOf that reports the revision HEAD had when the call started.
CommitInfoOfStale(o, commit) == IF o = "ok" THEN head0 ELSE None

\* get_commit_info(ref): the commit when git show exits 0, None otherwise.
CommitInfoOf(o, commit) == IF o = "ok" THEN commit ELSE None

\* The git commands can exit 0 only inside a working tree.
GitOutcomes == IF isRepo THEN Outcomes ELSE Outcomes \ {"ok"}
\* ... and those that talk to origin/<branch> only when the branch exists there.
RemoteOutcomes(all, branch) ==
  IF isRepo /\ branch \in TrackedBranches THEN all ELSE all \ {"ok", "logpost"}

\* A command whose pre-append to the log failed was not started.
Ran(o) == o # "logpre"
Log(cmd, o) == IF Ran(o) THEN Append(cmds, cmd) ELSE cmds
\* A restart command, followed by a mark when it exited 0.
RestartExit0 == "restart exited 0"
LogRestart(cmd, o) ==
  IF Succeeded(o) THEN Log(cmd, o) \o <<RestartExit0>> ELSE Log(cmd, o)

\* An exception leaves the operation (no enclosing try).
Escape(e) == /\ pc' = "raised"
             /\ exc' = e
             /\ UNCHANGED <<loc, res>>
\* An exception inside the try block reaches `except Exception`.
ToHandler(e) == /\ pc' = "handler"
                /\ loc' = [loc EXCEPT !.err = e]
                /\ UNCHANGED <<exc, res>>
Return(r) == /\ pc' = "done"
             /\ res' = r
             /\ UNCHANGED <<loc, exc>>

UpdateResult(ok, after, error) ==
  [NoRes EXCEPT !.kind = "update", !.ok = ok, !.branch = loc.branch,
                !.before = loc.before, !.after = after, !.remote = loc.remote,
                !.changed_files = loc.changed, !.steps = loc.steps,
                !.restart_required = loc.rr, !.restart_performed = loc.rp,
                !.error = error]

RollbackResult(ok, target_commit, after, error) ==
  [NoRes EXCEPT !.kind = "rollback", !.ok = ok, !.target_commit = target_commit,
                !.before = loc.before, !.after = after, !.steps = loc.steps,
                !.restart_required = loc.rr, !.restart_performed = loc.rp,
                !.error = error]

\* ------------------------------------------------------------- run_update
\* The arguments of a call are drawn where the code first reads them
\* (execute_restart at lines 592 and 676, target_commit at line 660).
StartUpdate ==
  /\ op = "idle" /\ opCount < MaxOps
  /\ loc' = NoLoc
  /\ op' = "update" /\ pc' = "u_before"
  /\ res' = NoRes /\ exc' = None /\ cmds' = <<>>
  /\ head0' = head /\ store0' = stateFile /\ opCount' = opCount + 1
  /\ UNCHANGED <<head, originRef, stateFile, env, lastP, prev>>

\* line 544: before = get_commit_info("HEAD")
UBefore ==
  /\ op = "update" /\ pc = "u_before"
  /\ \E o \in GitOutcomes :
       /\ cmds' = Append(cmds, "git show")
       /\ IF Raises(o) THEN Escape(ErrOf(o))
          ELSE /\ pc' = "u_branch"
               /\ loc' = [loc EXCEPT !.before = CommitInfoOf(o, head)]
               /\ UNCHANGED <<exc, res>>
  /\ UNCHANGED <<head, originRef, stateFile, env, op, head0, store0, opCount, lastP, prev>>

\* line 546: branch = update_branch.strip() or get_current_branch()
UBranch ==
  /\ op = "update" /\ pc = "u_branch"
  /\ IF Strip(cfg.update_branch) # ""
     THEN /\ pc' = "u_isrepo"
          /\ loc' = [loc EXCEPT !.branch = Strip(cfg.update_branch)]
          /\ UNCHANGED <<exc, res, cmds>>
     ELSE \E o \in GitOutcomes :
            /\ cmds' = Append(cmds, "git rev-parse")
            /\ IF Raises(o) THEN Escape(ErrOf(o))
               ELSE /\ pc' = "u_isrepo"
                    /\ loc' = [loc EXCEPT !.branch = IF o = "ok" THEN CurrentBranch ELSE "main"]
                    /\ UNCHANGED <<exc, res>>
  /\ UNCHANGED <<head, originRef, stateFile, env, op, head0, store0, opCount, lastP, prev>>

\* lines 551-565: the is-tracked probe and the "update skipped" return
UIsRepo ==
  /\ op = "update" /\ pc = "u_isrepo"
  /\ \E o \in GitOutcomes, l \in LogOutcomes :
       /\ cmds' = Append(cmds, "git rev-parse")
       /\ IF Raises(o) THEN Escape(ErrOf(o))
          ELSE IF o = "ok" THEN /\ pc' = "u_start"
                                /\ UNCHANGED <<loc, exc, res>>
          ELSE IF l = "ioerror" THEN Escape(ErrLogIO)
          ELSE Return([UpdateResult(FALSE, loc.before, ErrNotRepo) EXCEPT
                         !.remote = None, !.changed_files = {}, !.steps = <<>>,
                         !.restart_required = FALSE, !.restart_performed = FALSE])
  /\ UNCHANGED <<head, originRef, stateFile, env, op, head0, store0, opCount, lastP, prev>>

\* UStart that checks the restart configuration before anything else.
UStartValidating ==
  /\ op = "update" /\ pc = "u_start"
  /\ \E l \in LogOutcomes :
       IF l = "ioerror" THEN ToHandler(ErrLogIO)
       ELSE IF RestartPlan(cfg.restart).kind = "error"
       THEN ToHandler(RestartPlan(cfg.restart).text)
       ELSE /\ pc' = "u_resolve"
            /\ UNCHANGED <<loc, exc, res>>
  /\ UNCHANGED <<head, originRef, stateFile, env, op, cmds, head0, store0, opCount, lastP, prev>>

\* line 567: _append_log("=== update start ===")
UStart ==
  /\ op = "update" /\ pc = "u_start"
  /\ \E l \in LogOutcomes :
       IF l = "ioerror" THEN ToHandler(ErrLogIO)
       ELSE /\ pc' = "u_resolve"
            /\ UNCHANGED <<loc, exc, res>>
  /\ UNCHANGED <<head, originRef, stateFile, env, op, cmds, head0, store0, opCount, lastP, prev>>

\* line 568: branch = resolve_branch(settings)
UResolve ==
  /\ op = "update" /\ pc = "u_resolve"
  /\ cmds' = Append(cmds, "git rev-parse")
  /\ \E o \in {"ok", "timeout"}, cur1, cur2 \in {CurrentBranch, "main"},
        flaky \in SUBSET Branches :
       IF Raises(o) THEN ToHandler(ErrOf(o))
       ELSE /\ pc' = "u_fetch"
            /\ loc' = [loc EXCEPT !.branch =
                         ResolveBranch(cfg.update_branch, cur1, cur2,
                                       IF isRepo THEN TrackedBranches \ flaky ELSE {})]
            /\ UNCHANGED <<exc, res>>
  /\ UNCHANGED <<head, originRef, stateFile, env, op, head0, store0, opCount, lastP, prev>>

\* UFetch with a strict fetch: a non-zero exit raises into the handler.
UFetchStrict ==
  /\ op = "update" /\ pc = "u_fetch"
  /\ \E o \in RemoteOutcomes(LoggedOutcomes, loc.branch) :
       /\ cmds' = Log("git fetch", o)
       /\ originRef' = IF Succeeded(o) THEN upstream ELSE originRef
       /\ IF o # "ok"
          THEN /\ pc' = "handler"
               /\ loc' = [loc EXCEPT !.err = ErrOf(o), !.fetch = o]
               /\ UNCHANGED <<exc, res>>
          ELSE /\ pc' = "u_remote"
               /\ loc' = [loc EXCEPT !.fetch = o]
               /\ UNCHANGED <<exc, res>>
  /\ UNCHANGED <<head, stateFile, env, op, head0, store0, opCount, lastP, prev>>

\* line 569: fetch_remote(branch) (not strict: a non-zero exit is ignored)
UFetch ==
  /\ op = "update" /\ pc = "u_fetch"
  /\ \E o \in RemoteOutcomes(LoggedOutcomes, loc.branch) :
       /\ cmds' = Log("git fetch", o)
       /\ originRef' = IF Succeeded(o) THEN upstream ELSE originRef
       /\ IF Raises(o) THEN ToHandler(ErrOf(o))
          ELSE /\ pc' = "u_remote"
               /\ loc' = [loc EXCEPT !.fetch = o]
               /\ UNCHANGED <<exc, res>>
  /\ UNCHANGED <<head, stateFile, env, op, head0, store0, opCount, lastP, prev>>

\* line 570: remote = get_remote_commit(branch)
URemote ==
  /\ op = "update" /\ pc = "u_remote"
  /\ \E o \in RemoteOutcomes(Outcomes, loc.branch) :
       /\ cmds' = Append(cmds, "git show")
       /\ IF Raises(o) THEN ToHandler(ErrOf(o))
          ELSE /\ pc' = "u_check"
               /\ loc' = [loc EXCEPT !.remote = CommitInfoOf(o, originRef)]
               /\ UNCHANGED <<exc, res>>
  /\ UNCHANGED <<head, originRef, stateFile, env, op, head0, store0, opCount, lastP, prev>>

\* SameRevision that never finds the two revisions equal.
SameRevisionNever(before, remote) == FALSE

\* line 573: before.full_hash == remote.full_hash
SameRevision(before, remote) == before = remote

\* lines 571-586: unresolved commits raise; equal hashes return "no updates"
UCheck ==
  /\ op = "update" /\ pc = "u_check"
  /\ IF loc.before = None \/ loc.remote = None THEN ToHandler(ErrCannotResolve)
     ELSE IF SameRevision(loc.before, loc.remote)
     THEN \E l \in LogOutcomes :
            IF l = "ioerror" THEN ToHandler(ErrLogIO)
            ELSE Return([UpdateResult(TRUE, loc.before, None) EXCEPT
                           !.changed_files = {}, !.steps = <<"no updates">>,
                           !.restart_required = FALSE, !.restart_performed = FALSE])
     ELSE /\ pc' = "u_diff"
          /\ UNCHANGED <<loc, exc, res>>
  /\ UNCHANGED <<head, originRef, stateFile, env, op, cmds, head0, store0, opCount, lastP, prev>>

\* line 588: changed_files = get_changed_files_between("HEAD", origin/branch)
UDiff ==
  /\ op = "update" /\ pc = "u_diff"
  /\ \E o \in RemoteOutcomes(Outcomes, loc.branch) :
       /\ cmds' = Append(cmds, "git diff")
       /\ IF Raises(o) THEN ToHandler(ErrOf(o))
          ELSE /\ pc' = "u_pull"
               /\ loc' = [loc EXCEPT !.changed =
                            IF o = "ok" THEN DiffNames(head, originRef) ELSE {}]
               /\ UNCHANGED <<exc, res>>
  /\ UNCHANGED <<head, originRef, stateFile, env, op, head0, store0, opCount, lastP, prev>>

\* git pull --ff-only can exit 0 when HEAD is an ancestor of the remote tip
\* (fast-forward) or the tip is already contained in HEAD (up to date).
PullCanSucceed == IsAncestor(head, upstream) \/ IsAncestor(upstream, head)
PullOutcomes(branch) ==
  IF PullCanSucceed THEN RemoteOutcomes(LoggedOutcomes, branch)
  ELSE LoggedOutcomes \ {"ok", "logpost"}
\* HEAD after a pull that exited 0.
PulledHead == IF IsAncestor(head, upstream) THEN upstream ELSE head

\* line 589: pull_fast_forward(branch) (strict)
UPull ==
  /\ op = "update" /\ pc = "u_pull"
  /\ \E o \in PullOutcomes(loc.branch) :
       /\ cmds' = Log("git pull", o)
       /\ IF Succeeded(o)
          THEN /\ head' = PulledHead
               /\ originRef' = upstream
          ELSE \* a pull that timed out may have moved HEAD before it was killed
               /\ head' \in IF o = "timeout" /\ PullCanSucceed /\ isRepo
                                /\ loc.branch \in TrackedBranches
                             THEN {head, PulledHead} ELSE {head}
               \* the fetch half of a failed pull may have completed
               /\ originRef' \in IF Ran(o) /\ isRepo /\ loc.branch \in TrackedBranches
                                 THEN {originRef, upstream} ELSE {originRef}
       /\ IF o = "ok" THEN /\ pc' = "u_post1"
                           /\ loc' = [loc EXCEPT !.pull = o]
                           /\ UNCHANGED <<exc, res>>
          ELSE /\ pc' = "handler"
               /\ loc' = [loc EXCEPT !.err = ErrOf(o), !.pull = o]
               /\ UNCHANGED <<exc, res>>
  /\ UNCHANGED <<stateFile, env, op, head0, store0, opCount, lastP, prev>>

\* PostStep that goes on to the next helper when its command failed.
PostStepIgnoringFailure(here, next, cmd, note) ==
  /\ op = "update" /\ pc = here
  /\ IF cmd = None
     THEN /\ pc' = next
          /\ loc' = [loc EXCEPT !.steps = IF next = "restart" THEN @ \o loc.post ELSE @]
          /\ UNCHANGED <<exc, res, cmds>>
     ELSE \E o \in LoggedOutcomes :
            /\ cmds' = Log(cmd, o)
            /\ pc' = next
            /\ loc' = [loc EXCEPT
                         !.post = IF o = "ok" THEN Append(@, note) ELSE @,
                         !.steps = IF next = "restart"
                                   THEN @ \o (IF o = "ok" THEN Append(loc.post, note)
                                                         ELSE loc.post)
                                   ELSE @]
            /\ UNCHANGED <<exc, res>>
  /\ UNCHANGED <<head, originRef, stateFile, env, op, head0, store0, opCount, lastP, prev>>

\* One helper of run_post_update_steps: runs cmd (strict) unless it is None
\* and notes it in the helper's own list; line 590 extends `steps` with that
\* list only when all three helpers have returned.
PostStep(here, next, cmd, note) ==
  /\ op = "update" /\ pc = here
  /\ IF cmd = None
     THEN /\ pc' = next
          /\ loc' = [loc EXCEPT !.steps = IF next = "restart" THEN @ \o loc.post ELSE @]
          /\ UNCHANGED <<exc, res, cmds>>
     ELSE \E o \in LoggedOutcomes :
            /\ cmds' = Log(cmd, o)
            /\ IF o = "ok"
               THEN /\ pc' = next
                    /\ loc' = [loc EXCEPT
                                 !.post = Append(@, note),
                                 !.steps = IF next = "restart"
                                           THEN @ \o Append(loc.post, note) ELSE @]
                    /\ UNCHANGED <<exc, res>>
               ELSE /\ pc' = "handler"
                    /\ loc' = [loc EXCEPT !.err = ErrOf(o), !.stage = "post"]
                    /\ UNCHANGED <<exc, res>>
  /\ UNCHANGED <<head, originRef, stateFile, env, op, head0, store0, opCount, lastP, prev>>

\* lines 333-338 (with line 590 appending the collected steps)
UPostRequirements ==
  PostStep("u_post1", "u_post2", RequirementsCmd(loc.changed, TreeFiles),
           "pip install -r requirements.txt")
UPostNode ==
  PostStep("u_post2", "u_post3", NodeCmd(loc.changed, TreeFiles, ToolsOnPath),
           "node deps installed")
UPostMigrations ==
  PostStep("u_post3", "restart", MigrationCmd(loc.changed, TreeFiles),
           "migrations applied")

Restarted(note, execute_restart) ==
  /\ pc' = "after"
  /\ loc' = [loc EXCEPT !.steps = Append(@, note), !.rp = TRUE,
                        !.rr = RestartRequired(cfg.restart.mode),
                        !.exec = execute_restart]
  /\ UNCHANGED <<exc, res>>

RestartRaised(e, execute_restart) ==
  /\ pc' = "handler"
  /\ loc' = [loc EXCEPT !.err = e, !.rr = RestartRequired(cfg.restart.mode),
                        !.exec = execute_restart, !.stage = "restart"]
  /\ UNCHANGED <<exc, res>>

\* lines 591-597 and 676-681: restart, or note that it is deferred
Restart ==
  /\ op \in {"update", "rollback"} /\ pc = "restart"
  /\ \E execute_restart \in BOOLEAN :
     LET rr == RestartRequired(cfg.restart.mode)
         plan == RestartPlan(cfg.restart)
     IN IF rr /\ execute_restart
        THEN CASE plan.kind = "skip" -> Restarted(plan.text, TRUE) /\ cmds' = cmds
               [] plan.kind = "error" ->
                    /\ RestartRaised(plan.text, TRUE)
                    /\ cmds' = cmds
               [] plan.kind = "run" ->
                    \E o \in LoggedOutcomes :
                      /\ cmds' = LogRestart("restart", o)
                      /\ IF o = "ok" THEN Restarted(plan.text, TRUE)
                         ELSE RestartRaised(ErrOf(o), TRUE)
               [] plan.kind = "systemd" ->
                    \E sudo \in BOOLEAN, o \in LoggedOutcomes :
                      IF ~sudo
                      THEN /\ pc' = "restart_direct"
                           /\ loc' = [loc EXCEPT !.rr = rr, !.exec = TRUE]
                           /\ UNCHANGED <<exc, res, cmds>>
                      ELSE /\ cmds' = LogRestart("sudo restart", o)
                           /\ IF Raises(o) THEN RestartRaised(ErrOf(o), TRUE)
                              ELSE IF o = "ok" THEN Restarted(plan.text, TRUE)
                              ELSE /\ pc' = "restart_direct"
                                   /\ loc' = [loc EXCEPT !.rr = rr, !.exec = TRUE]
                                   /\ UNCHANGED <<exc, res>>
        ELSE /\ pc' = "after"
             /\ loc' = [loc EXCEPT !.rr = rr, !.exec = execute_restart,
                                   !.steps = IF rr THEN Append(@, "restart deferred") ELSE @]
             /\ UNCHANGED <<exc, res, cmds>>
  /\ UNCHANGED <<head, originRef, stateFile, env, op, head0, store0, opCount, lastP, prev>>

\* line 364: systemctl restart without sudo (strict)
RestartDirect ==
  /\ op \in {"update", "rollback"} /\ pc = "restart_direct"
  /\ \E o \in LoggedOutcomes :
       /\ cmds' = LogRestart("restart", o)
       /\ IF o = "ok" THEN Restarted("systemd restart", TRUE)
          ELSE /\ pc' = "handler"
               /\ loc' = [loc EXCEPT !.err = ErrOf(o), !.stage = "restart"]
               /\ UNCHANGED <<exc, res>>
  /\ UNCHANGED <<head, originRef, stateFile, env, op, head0, store0, opCount, lastP, prev>>

\* lines 598 and 682: after = get_commit_info("HEAD")
After ==
  /\ op \in {"update", "rollback"} /\ pc = "after"
  /\ \E o \in GitOutcomes :
       /\ cmds' = Append(cmds, "git show")
       /\ IF Raises(o) THEN ToHandler(ErrOf(o))
          ELSE /\ pc' = "save"
               /\ loc' = [loc EXCEPT !.after = CommitInfoOf(o, head)]
               /\ UNCHANGED <<exc, res>>
  /\ UNCHANGED <<head, originRef, stateFile, env, op, head0, store0, opCount, lastP, prev>>

\* _save_state: write_text truncates the file and then writes the JSON text;
\* an I/O error raises and leaves the old file or a truncated one.
SaveState(payload) ==
  \E w \in {"ok", "ioerror"} :
    IF ~Encodable(payload)
    THEN \* write_text has opened (and truncated) the file before it encodes
         /\ stateFile' = CorruptFile
         /\ ToHandler(ErrEncode)
    ELSE IF w = "ok"
    THEN /\ stateFile' = JsonFile(payload)
         /\ pc' = "logok"
         /\ UNCHANGED <<loc, exc, res>>
    ELSE /\ stateFile' \in {stateFile, CorruptFile}
         /\ ToHandler(ErrStateIO)

\* lines 599-608: load, update, save
USave ==
  /\ op = "update" /\ pc = "save"
  /\ SaveState(Update(LoadState(stateFile),
                      UpdateKeys(Stamp(opCount), loc.branch, loc.before, loc.after)))
  /\ UNCHANGED <<head, originRef, env, op, cmds, head0, store0, opCount, lastP, prev>>

\* lines 609-621: log the success marker and return
ULogOk ==
  /\ op = "update" /\ pc = "logok"
  /\ \E l \in LogOutcomes :
       IF l = "ioerror" THEN ToHandler(ErrLogIO)
       ELSE Return(UpdateResult(TRUE, loc.after, None))
  /\ UNCHANGED <<head, originRef, stateFile, env, op, cmds, head0, store0, opCount, lastP, prev>>

\* lines 622-635: log the failure marker, re-resolve HEAD, return ok=False
UHandler ==
  /\ op = "update" /\ pc = "handler"
  /\ \E l \in LogOutcomes, o \in GitOutcomes :
       IF l = "ioerror" THEN Escape(ErrLogIO) /\ cmds' = cmds
       ELSE /\ cmds' = Append(cmds, "git show")
            /\ IF Raises(o) THEN Escape(ErrOf(o))
               ELSE Return(UpdateResult(FALSE, CommitInfoOf(o, head), loc.err))
  /\ UNCHANGED <<head, originRef, stateFile, env, op, head0, store0, opCount, lastP, prev>>

\* ---------------------------------------------------------------- rollback
StartRollback ==
  /\ op = "idle" /\ opCount < MaxOps
  /\ loc' = NoLoc
  /\ op' = "rollback" /\ pc' = "r_before"
  /\ res' = NoRes /\ exc' = None /\ cmds' = <<>>
  /\ head0' = head /\ store0' = stateFile /\ opCount' = opCount + 1
  /\ UNCHANGED <<head, originRef, stateFile, env, lastP, prev>>

\* lines 641-645: before = get_commit_info("HEAD"); restart_required
RBefore ==
  /\ op = "rollback" /\ pc = "r_before"
  /\ \E o \in GitOutcomes :
       /\ cmds' = Append(cmds, "git show")
       /\ IF Raises(o) THEN Escape(ErrOf(o))
          ELSE /\ pc' = "r_isrepo"
               /\ loc' = [loc EXCEPT !.before = CommitInfoOf(o, head),
                                     !.rr = RestartRequired(cfg.restart.mode)]
               /\ UNCHANGED <<exc, res>>
  /\ UNCHANGED <<head, originRef, stateFile, env, op, head0, store0, opCount, lastP, prev>>

\* lines 646-658: the is-tracked probe and the "rollback skipped" return
RIsRepo ==
  /\ op = "rollback" /\ pc = "r_isrepo"
  /\ \E o \in GitOutcomes, l \in LogOutcomes :
       /\ cmds' = Append(cmds, "git rev-parse")
       /\ IF Raises(o) THEN Escape(ErrOf(o))
          ELSE IF o = "ok" THEN /\ pc' = "r_candidate"
                                /\ UNCHANGED <<loc, exc, res>>
          ELSE IF l = "ioerror" THEN Escape(ErrLogIO)
          ELSE Return([RollbackResult(FALSE, None, loc.before, ErrNotRepo) EXCEPT
                         !.steps = <<>>, !.restart_required = FALSE,
                         !.restart_performed = FALSE])
  /\ UNCHANGED <<head, originRef, stateFile, env, op, head0, store0, opCount, lastP, prev>>

\* RCandidate without the `if not candidate` return of lines 661-671.
RCandidateUnguarded ==
  /\ op = "rollback" /\ pc = "r_candidate"
  /\ \E target_commit \in RollbackTargets :
       LET state == LoadState(stateFile)
           candidate == RollbackCandidate(target_commit, state)
       IN /\ loc' = [loc EXCEPT !.st = state, !.candidate = candidate,
                                !.target = target_commit]
          /\ IF FALSE
             THEN /\ pc' = "done"
                  /\ res' = [RollbackResult(FALSE, None, loc.before, ErrRollbackUnknown)
                               EXCEPT !.steps = <<>>, !.restart_required = FALSE,
                                      !.restart_performed = FALSE]
                  /\ exc' = exc
             ELSE /\ pc' = "r_start"
                  /\ UNCHANGED <<exc, res>>
  /\ UNCHANGED <<head, originRef, stateFile, env, op, cmds, head0, store0, opCount, lastP, prev>>

\* lines 659-671: load the State Store and choose the target
RCandidate ==
  /\ op = "rollback" /\ pc = "r_candidate"
  /\ \E target_commit \in RollbackTargets :
       LET state == LoadState(stateFile)
           candidate == RollbackCandidate(target_commit, state)
       IN /\ loc' = [loc EXCEPT !.st = state, !.candidate = candidate,
                                !.target = target_commit]
          /\ IF candidate = ""
             THEN /\ pc' = "done"
                  /\ res' = [RollbackResult(FALSE, None, loc.before, ErrRollbackUnknown)
                               EXCEPT !.steps = <<>>, !.restart_required = FALSE,
                                      !.restart_performed = FALSE]
                  /\ exc' = exc
             ELSE /\ pc' = "r_start"
                  /\ UNCHANGED <<exc, res>>
  /\ UNCHANGED <<head, originRef, stateFile, env, op, cmds, head0, store0, opCount, lastP, prev>>

\* line 673: _append_log("=== rollback start -> ... ===")
RStart ==
  /\ op = "rollback" /\ pc = "r_start"
  /\ \E l \in LogOutcomes :
       IF l = "ioerror" THEN ToHandler(ErrLogIO)
       ELSE /\ pc' = "r_reset"
            /\ UNCHANGED <<loc, exc, res>>
  /\ UNCHANGED <<head, originRef, stateFile, env, op, cmds, head0, store0, opCount, lastP, prev>>

\* git reset --hard can exit 0 only for a revision the repository knows.
ResetOutcomes(candidate) ==
  IF isRepo /\ candidate \in Commits THEN LoggedOutcomes
  ELSE LoggedOutcomes \ {"ok", "logpost"}

\* lines 674-675: git reset --hard candidate (strict)
RReset ==
  /\ op = "rollback" /\ pc = "r_reset"
  /\ \E o \in ResetOutcomes(loc.candidate) :
       /\ cmds' = Log("git reset", o)
       /\ IF Succeeded(o) THEN head' = loc.candidate
          ELSE \* a reset that timed out may have moved HEAD before it was killed
               head' \in IF o = "timeout" /\ isRepo /\ loc.candidate \in Commits
                         THEN {head, loc.candidate} ELSE {head}
       /\ IF o = "ok" THEN /\ pc' = "restart"
                           /\ loc' = [loc EXCEPT !.steps = Append(@, "git reset --hard")]
                           /\ UNCHANGED <<exc, res>>
          ELSE ToHandler(ErrOf(o))
  /\ UNCHANGED <<originRef, stateFile, env, op, head0, store0, opCount, lastP, prev>>

\* lines 685-689: the keys rollback merges into the record it loaded
RollbackKeys(stamp, after) ==
  [k \in {"rolled_back_at", "rolled_back_to", "last_known_good"} |->
     IF k = "rolled_back_at" THEN stamp ELSE after]

\* lines 683-691: update and save the record loaded at line 659, if HEAD resolved
RSave ==
  /\ op = "rollback" /\ pc = "save"
  /\ IF loc.after # None
     THEN SaveState(Update(loc.st, RollbackKeys(Stamp(opCount), loc.after)))
     ELSE /\ pc' = "logok"
          /\ UNCHANGED <<stateFile, loc, exc, res>>
  /\ UNCHANGED <<head, originRef, env, op, cmds, head0, store0, opCount, lastP, prev>>

\* lines 692-702: log the success marker and return
RLogOk ==
  /\ op = "rollback" /\ pc = "logok"
  /\ \E l \in LogOutcomes :
       IF l = "ioerror" THEN ToHandler(ErrLogIO)
       ELSE Return(RollbackResult(TRUE, loc.candidate, loc.after, None))
  /\ UNCHANGED <<head, originRef, stateFile, env, op, cmds, head0, store0, opCount, lastP, prev>>

\* lines 703-714: log the failure marker, re-resolve HEAD, return ok=False
RHandler ==
  /\ op = "rollback" /\ pc = "handler"
  /\ \E l \in LogOutcomes, o \in GitOutcomes :
       IF l = "ioerror" THEN Escape(ErrLogIO) /\ cmds' = cmds
       ELSE /\ cmds' = Append(cmds, "git show")
            /\ IF Raises(o) THEN Escape(ErrOf(o))
               ELSE Return(RollbackResult(FALSE, loc.candidate,
                                          CommitInfoOf(o, head), loc.err))
  /\ UNCHANGED <<head, originRef, stateFile, env, op, head0, store0, opCount, lastP, prev>>

\* ------------------------------------------------------- get_update_status
\* get_commits_between(limit=30)
CommitLimit == 30

RECURSIVE Range(_, _)
\* git log start..end, oldest first: the commits reachable from end and not
\* from start.
Range(start, end) ==
  IF end = None \/ IsAncestor(end, start) THEN <<>>
  ELSE Append(Range(start, Parent(end)), end)

\* CommitsBetween without --max-count.
CommitsBetweenAll(start, end, limit) == Range(start, end)

\* --max-count keeps the newest `limit` commits; --reverse then orders them.
CommitsBetween(start, end, limit) ==
  LET all == Range(start, end)
      n == IF limit < 1 THEN 1 ELSE limit
  IN IF Len(all) <= n THEN all ELSE SubSeq(all, Len(all) - n + 1, Len(all))

ErrFetch == "git fetch origin failed"
ErrNoHead == "cannot determine HEAD"
ErrNoRemote == "cannot determine origin commit"
ErrSourceHint == "source of /update data: local git"

StatusResult(branch, current, remote, has_updates, commits, errors) ==
  [NoRes EXCEPT !.kind = "status", !.branch = branch, !.current = current,
                !.remote = remote, !.has_updates = has_updates, !.commits = commits,
                !.errors = errors, !.release = loc.release,
                !.changelog_excerpt = loc.changelog]

StartStatus ==
  /\ op = "idle" /\ opCount < MaxOps
  /\ loc' = NoLoc
  /\ op' = "status" /\ pc' = "s_release"
  /\ res' = NoRes /\ exc' = None /\ cmds' = <<>>
  /\ head0' = head /\ store0' = stateFile /\ opCount' = opCount + 1
  /\ UNCHANGED <<head, originRef, stateFile, env, lastP, prev>>

\* lines 489-490: release notes, else the changelog excerpt (neither raises)
SRelease ==
  /\ op = "status" /\ pc = "s_release"
  /\ \E release \in {None, "v1.2"}, excerpt \in {None, "changelog"} :
       loc' = [loc EXCEPT !.release = release,
                          !.changelog = IF release = None THEN excerpt ELSE None]
  /\ pc' = "s_isrepo"
  /\ UNCHANGED <<head, originRef, stateFile, env, op, res, exc, cmds, head0, store0,
                 opCount, lastP, prev>>

\* lines 492-505: the is-tracked probe (outside the try block)
SIsRepo ==
  /\ op = "status" /\ pc = "s_isrepo"
  /\ \E o \in GitOutcomes :
       /\ cmds' = Append(cmds, "git rev-parse")
       /\ IF Raises(o) THEN Escape(ErrOf(o))
          ELSE IF o = "ok" THEN /\ pc' = "s_resolve"
                                /\ UNCHANGED <<loc, exc, res>>
          ELSE Return(StatusResult(
                 IF Strip(cfg.update_branch) # "" THEN Strip(cfg.update_branch) ELSE "main",
                 None, None, FALSE, <<>>, <<ErrNotRepo, ErrSourceHint>>))
  /\ UNCHANGED <<head, originRef, stateFile, env, op, head0, store0, opCount, lastP, prev>>

\* An exception inside the try block of get_update_status (line 520).
ToExcept(e) == /\ pc' = "s_except"
               /\ loc' = [loc EXCEPT !.errors = Append(@, e)]
               /\ UNCHANGED <<exc, res>>

\* line 508: branch = resolve_branch(settings)
SResolve ==
  /\ op = "status" /\ pc = "s_resolve"
  /\ cmds' = Append(cmds, "git rev-parse")
  /\ \E o \in {"ok", "timeout"}, cur1, cur2 \in {CurrentBranch, "main"},
        flaky \in SUBSET Branches :
       IF Raises(o) THEN ToExcept(ErrOf(o))
       ELSE /\ pc' = "s_fetch"
            /\ loc' = [loc EXCEPT !.branch =
                         ResolveBranch(cfg.update_branch, cur1, cur2,
                                       IF isRepo THEN TrackedBranches \ flaky ELSE {})]
            /\ UNCHANGED <<exc, res>>
  /\ UNCHANGED <<head, originRef, stateFile, env, op, head0, store0, opCount, lastP, prev>>

\* SFetch with a fetch that also moves HEAD to the fetched tip (a pull).
SFetchPulling ==
  /\ op = "status" /\ pc = "s_fetch"
  /\ \E o \in RemoteOutcomes(Outcomes, loc.branch) :
       /\ cmds' = Append(cmds, "git fetch")
       /\ originRef' = IF Succeeded(o) THEN upstream ELSE originRef
       /\ head' = IF Succeeded(o) THEN upstream ELSE head
       /\ IF Raises(o) THEN ToExcept(ErrOf(o))
          ELSE /\ pc' = "s_current"
               /\ loc' = [loc EXCEPT !.errors = IF o = "ok" THEN @ ELSE Append(@, ErrFetch)]
               /\ UNCHANGED <<exc, res>>
  /\ UNCHANGED <<stateFile, env, op, head0, store0, opCount, lastP, prev>>

\* lines 509-511: fetch_remote(branch), no log
SFetch ==
  /\ op = "status" /\ pc = "s_fetch"
  /\ \E o \in RemoteOutcomes(Outcomes, loc.branch) :
       /\ cmds' = Append(cmds, "git fetch")
       /\ originRef' = IF Succeeded(o) THEN upstream ELSE originRef
       /\ IF Raises(o) THEN ToExcept(ErrOf(o))
          ELSE /\ pc' = "s_current"
               /\ loc' = [loc EXCEPT !.errors = IF o = "ok" THEN @ ELSE Append(@, ErrFetch)]
               /\ UNCHANGED <<exc, res>>
  /\ UNCHANGED <<head, stateFile, env, op, head0, store0, opCount, lastP, prev>>

\* line 512: current = get_commit_info("HEAD")
SCurrent ==
  /\ op = "status" /\ pc = "s_current"
  /\ \E o \in GitOutcomes :
       /\ cmds' = Append(cmds, "git show")
       /\ IF Raises(o) THEN ToExcept(ErrOf(o))
          ELSE /\ pc' = "s_remote"
               /\ loc' = [loc EXCEPT !.before = CommitInfoOf(o, head)]
               /\ UNCHANGED <<exc, res>>
  /\ UNCHANGED <<head, originRef, stateFile, env, op, head0, store0, opCount, lastP, prev>>

\* has_updates = bool(current and remote and current.full_hash != remote.full_hash)
HasUpdates(current, remote) == current # None /\ remote # None /\ current # remote

\* lines 513-517: remote = get_remote_commit(branch), and the two diagnostics
SRemote ==
  /\ op = "status" /\ pc = "s_remote"
  /\ \E o \in RemoteOutcomes(Outcomes, loc.branch) :
       /\ cmds' = Append(cmds, "git show")
       /\ IF Raises(o) THEN ToExcept(ErrOf(o))
          ELSE LET remote == CommitInfoOf(o, originRef)
                   e1 == IF loc.before = None THEN Append(loc.errors, ErrNoHead)
                         ELSE loc.errors
                   e2 == IF remote = None THEN Append(e1, ErrNoRemote) ELSE e1
               IN /\ pc' = "s_commits"
                  /\ loc' = [loc EXCEPT !.remote = remote, !.errors = e2]
                  /\ UNCHANGED <<exc, res>>
  /\ UNCHANGED <<head, originRef, stateFile, env, op, head0, store0, opCount, lastP, prev>>

\* lines 518-519 and 528-537: has_updates, the commit list, the result
SCommits ==
  /\ op = "status" /\ pc = "s_commits"
  /\ LET has_updates == HasUpdates(loc.before, loc.remote)
     IN IF ~has_updates
        THEN /\ Return(StatusResult(loc.branch, loc.before, loc.remote, FALSE, <<>>,
                                    loc.errors))
             /\ cmds' = cmds
        ELSE \E o \in RemoteOutcomes(Outcomes, loc.branch) :
               /\ cmds' = Append(cmds, "git log")
               /\ IF Raises(o) THEN ToExcept(ErrOf(o))
                  ELSE Return(StatusResult(loc.branch, loc.before, loc.remote, TRUE,
                                IF o = "ok" THEN CommitsBetween(head, originRef, CommitLimit)
                                ELSE <<>>,
                                loc.errors))
  /\ UNCHANGED <<head, originRef, stateFile, env, op, head0, store0, opCount, lastP, prev>>

\* lines 520-526: the recovery path re-resolves branch and HEAD
SExcept ==
  /\ op = "status" /\ pc = "s_except"
  /\ \E ob \in GitOutcomes, o \in GitOutcomes :
       LET configured == Strip(cfg.update_branch)
       IN /\ cmds' = IF configured # "" THEN Append(cmds, "git show")
                     ELSE cmds \o <<"git rev-parse", "git show">>
          /\ IF (configured = "" /\ Raises(ob)) THEN Escape(ErrOf(ob))
             ELSE IF Raises(o) THEN Escape(ErrOf(o))
             ELSE Return(StatusResult(
                    IF configured # "" THEN configured
                    ELSE IF ob = "ok" THEN CurrentBranch ELSE "main",
                    CommitInfoOf(o, head), None, FALSE, <<>>, loc.errors))
  /\ UNCHANGED <<head, originRef, stateFile, env, op, head0, store0, opCount, lastP, prev>>

\* The caller takes the result (or the exception); the controller is idle.
Finish ==
  /\ pc \in {"done", "raised"}
  /\ op' = "idle" /\ pc' = "idle"
  /\ loc' = NoLoc /\ res' = NoRes /\ exc' = None /\ cmds' = <<>>
  /\ head0' = head /\ store0' = stateFile
  /\ lastP' = IF pc = "done" /\ res.ok /\ res.kind = "update"
                 /\ res.steps # <<"no updates">>
              THEN res.before
              ELSE IF pc = "done" /\ res.ok /\ res.kind = "rollback" THEN None
              ELSE lastP
  /\ prev' = IF op = "update" /\ ~(pc = "done" /\ res.ok) /\ head # head0
             THEN [stage |-> loc.stage, from |-> head0, store |-> store0,
                   returned |-> (pc = "done")]
             ELSE NoPrev
  /\ UNCHANGED <<head, originRef, stateFile, env, opCount>>

\* A new commit is pushed to the remote branch.  Only fetch and pull read the
\* remote tip, so a push at any other moment acts like one at the next of
\* these two: between operations, or between the fetch and the pull.
RemoteAdvance ==
  /\ advances < MaxAdvance
  /\ pc \in {"idle", "u_pull"}
  /\ \E c \in Commits \ {"X", upstream} : IsAncestor(upstream, c) /\ upstream' = c
  /\ advances' = advances + 1
  /\ UNCHANGED <<head, originRef, stateFile, isRepo, cfg, op, pc,
                 loc, res, exc, cmds, head0, store0, opCount, lastP, prev>>

Next ==
  \/ StartUpdate \/ UBefore \/ UBranch \/ UIsRepo \/ UStart \/ UResolve \/ UFetch
  \/ URemote \/ UCheck \/ UDiff \/ UPull
  \/ UPostRequirements \/ UPostNode \/ UPostMigrations
  \/ Restart \/ RestartDirect \/ After \/ USave \/ ULogOk \/ UHandler
  \/ StartRollback \/ RBefore \/ RIsRepo \/ RCandidate \/ RStart \/ RReset
  \/ RSave \/ RLogOk \/ RHandler
  \/ StartStatus \/ SRelease \/ SIsRepo \/ SResolve \/ SFetch \/ SCurrent \/ SRemote
  \/ SCommits \/ SExcept
  \/ Finish \/ RemoteAdvance

Spec == Init /\ [][Next]_vars

\* ------------------------------------------------- the helpers on their own
\* run_post_update_steps, resolve_branch and _run_command called directly,
\* over inputs drawn from bounded sets.
MaxChanged == 2
StepPaths ==
  { <<"requirements.txt">>, <<"pnpm-lock.yaml">>, <<"package-lock.json">>,
    <<"yarn.lock">>, <<"alembic.ini">>, <<"db", "alembic.ini">>,
    <<"app", "Migrations", "0002.py">>, <<"alembic", "env.py">>, <<"README.md">>,
    <<"app", "immigrations", "form.html">> }
StepTreeFiles ==
  { <<"requirements.txt">>, <<"pnpm-lock.yaml">>, <<"package-lock.json">>,
    <<"yarn.lock">>, <<"alembic.ini">>, <<"manage.py">> }
StepTools == {"pnpm", "npm", "yarn"}
CheckedOut == {"main", "feature-x", "dev"}
RemoteBranches == {"main", "master", "dev", "feature-x"}
ConfiguredBranches == {"", " ", "dev", "feature-x"}
\* The process started by subprocess.run, and a process that one started.
Child == "child"
Descendant == "descendant"

HelperLoc ==
  [changed |-> {}, tree |-> {}, tools |-> {}, post |-> <<>>,
   current |-> "main", cur1 |-> "", cur2 |-> "", exists |-> {},
   log |-> FALSE, check |-> FALSE, forks |-> FALSE, procs |-> {}, timedout |-> FALSE,
   exit |-> "", stderr |-> "", stdout |-> ""]

HelperInit ==
  /\ isRepo = TRUE
  /\ upstream = "A" /\ advances = 0 /\ head = "A" /\ originRef = "A"
  /\ stateFile = AbsentFile /\ lastP = None
  /\ res = NoRes /\ exc = None /\ cmds = <<>>
  /\ head0 = head /\ store0 = stateFile /\ opCount = 0 /\ prev = NoPrev
  /\ \/ /\ op = "steps" /\ pc = "p_requirements"
        /\ cfg = [update_branch |-> "", restart |-> [mode |-> "NONE", cmd |-> ""]]
        /\ \E changed \in SUBSET StepPaths, tree \in SUBSET StepTreeFiles,
              tools \in SUBSET StepTools :
             /\ Cardinality(changed) <= MaxChanged
             /\ loc = [HelperLoc EXCEPT !.changed = changed, !.tree = tree,
                                        !.tools = tools]
     \/ /\ op = "resolve" /\ pc = "b_preferred"
        /\ \E b \in ConfiguredBranches :
             cfg = [update_branch |-> b, restart |-> [mode |-> "NONE", cmd |-> ""]]
        /\ \E current \in CheckedOut, exists \in SUBSET RemoteBranches :
             loc = [HelperLoc EXCEPT !.current = current, !.exists = exists]
     \/ /\ op = "run" /\ pc = "c_log"
        /\ cfg = [update_branch |-> "", restart |-> [mode |-> "NONE", cmd |-> ""]]
        /\ \E log, check, forks \in BOOLEAN :
             loc = [HelperLoc EXCEPT !.log = log, !.check = check, !.forks = forks]

\* One helper of run_post_update_steps called on its own: a failing command
\* raises out of run_post_update_steps.
StepsHelper(here, next, cmd, note) ==
  /\ op = "steps" /\ pc = here
  /\ IF cmd = None
     THEN /\ pc' = next
          /\ res' = IF next = "done" THEN [NoRes EXCEPT !.kind = "steps", !.steps = loc.post]
                    ELSE res
          /\ UNCHANGED <<loc, exc, cmds>>
     ELSE \E o \in LoggedOutcomes :
            /\ cmds' = Log(cmd, o)
            /\ IF o = "ok"
               THEN /\ pc' = next
                    /\ loc' = [loc EXCEPT !.post = Append(@, note)]
                    /\ res' = IF next = "done"
                              THEN [NoRes EXCEPT !.kind = "steps",
                                                 !.steps = Append(loc.post, note)]
                              ELSE res
                    /\ exc' = exc
               ELSE /\ pc' = "raised"
                    /\ exc' = ErrOf(o)
                    /\ UNCHANGED <<loc, res>>
  /\ UNCHANGED <<head, originRef, stateFile, env, op, head0, store0, opCount, lastP, prev>>

\* lines 333-334
StepsRequirements ==
  StepsHelper("p_requirements", "p_node", RequirementsCmd(loc.changed, loc.tree),
              "pip install -r requirements.txt")
\* lines 335-336
StepsNode ==
  StepsHelper("p_node", "p_migrations", NodeCmd(loc.changed, loc.tree, loc.tools),
              "node deps installed")
\* lines 337-339
StepsMigrations ==
  StepsHelper("p_migrations", "done", MigrationCmd(loc.changed, loc.tree),
              "migrations applied")

\* get_current_branch: the checked-out branch, or "main" when the command
\* exits non-zero or prints nothing; a timeout raises.
ReadCurrentBranch(here, next, field) ==
  /\ op = "resolve" /\ pc = here
  /\ \E o \in Outcomes :
       /\ cmds' = Append(cmds, "git rev-parse")
       /\ IF Raises(o)
          THEN /\ pc' = "raised" /\ exc' = ErrOf(o)
               /\ UNCHANGED <<loc, res>>
          ELSE /\ pc' = next
               /\ loc' = [loc EXCEPT ![field] = IF o = "ok" THEN loc.current ELSE "main"]
               /\ UNCHANGED <<exc, res>>
  /\ UNCHANGED <<head, originRef, stateFile, env, op, head0, store0, opCount, lastP, prev>>

\* line 203: the current branch is read only when no branch is configured
ResolvePreferred ==
  IF Strip(cfg.update_branch) # ""
  THEN /\ op = "resolve" /\ pc = "b_preferred"
       /\ pc' = "b_current"
       /\ UNCHANGED <<head, originRef, stateFile, env, op, loc, res, exc, cmds,
                      head0, store0, opCount, lastP, prev>>
  ELSE ReadCurrentBranch("b_preferred", "b_current", "cur1")
\* line 204
ResolveCurrent == ReadCurrentBranch("b_current", "b_probe", "cur2")
\* lines 205-213
ResolveProbe ==
  /\ op = "resolve" /\ pc = "b_probe"
  /\ pc' = "done"
  /\ res' = [NoRes EXCEPT !.kind = "resolve",
                          !.branch = ResolveBranch(cfg.update_branch, loc.cur1,
                                                   loc.cur2, loc.exists)]
  /\ UNCHANGED <<head, originRef, stateFile, env, op, loc, exc, cmds,
                 head0, store0, opCount, lastP, prev>>

\* What the command wrote to its two streams.
CommandStderr == {"", " ", "fatal: refused"}
CommandStdout == {"", "Already up to date."}
\* line 128: stderr.strip() or stdout.strip() or "command failed"
FailureText(stderr, stdout) ==
  IF Strip(stderr) # "" THEN Strip(stderr)
  ELSE IF Strip(stdout) # "" THEN Strip(stdout)
  ELSE ErrCommand
RunRaise(e) == /\ pc' = "raised" /\ exc' = e /\ res' = res
\* lines 99-100: the command line is appended to the log, if there is one
RunLogCommand ==
  /\ op = "run" /\ pc = "c_log"
  /\ \E l \in LogOutcomes :
       IF loc.log /\ l = "ioerror" THEN RunRaise(ErrLogIO)
       ELSE pc' = "c_start" /\ UNCHANGED <<exc, res>>
  /\ UNCHANGED <<head, originRef, stateFile, env, op, loc, cmds,
                 head0, store0, opCount, lastP, prev>>
\* lines 105-115: subprocess.run starts the child in the caller's session and
\* process group; the child may start processes of its own
RunStart ==
  /\ op = "run" /\ pc = "c_start"
  /\ pc' = "c_wait"
  /\ loc' = [loc EXCEPT !.procs = IF loc.forks THEN {Child, Descendant} ELSE {Child}]
  /\ cmds' = Append(cmds, "command")
  /\ UNCHANGED <<head, originRef, stateFile, env, op, res, exc,
                 head0, store0, opCount, lastP, prev>>
\* lines 105-130: the child exits, or the timeout expires: subprocess.run
\* then kills the child (Popen.kill, one pid), reaps it and raises
\* TimeoutExpired, which line 121 turns into UpdateError
RunWait ==
  /\ op = "run" /\ pc = "c_wait"
  /\ \E o \in Outcomes, l \in LogOutcomes, left \in SUBSET (loc.procs \ {Child}),
        stderr \in CommandStderr, stdout \in CommandStdout :
       IF o = "timeout"
       THEN /\ loc' = [loc EXCEPT !.procs = @ \ {Child}, !.timedout = TRUE, !.exit = o]
            /\ IF loc.log /\ l = "ioerror" THEN RunRaise(ErrLogIO)
               ELSE RunRaise(ErrTimeout)
       ELSE /\ loc' = [loc EXCEPT !.procs = left, !.exit = o,
                                  !.stderr = stderr, !.stdout = stdout]
            /\ IF loc.log /\ l = "ioerror" /\ (stderr # "" \/ stdout # "")
               THEN RunRaise(ErrLogIO)
               ELSE IF loc.check /\ o = "fail" THEN RunRaise(FailureText(stderr, stdout))
               ELSE /\ pc' = "done"
                    /\ res' = [NoRes EXCEPT !.kind = "run", !.ok = (o = "ok")]
                    /\ exc' = exc
  /\ UNCHANGED <<head, originRef, stateFile, env, op, cmds,
                 head0, store0, opCount, lastP, prev>>

HelperNext ==
  \/ StepsRequirements \/ StepsNode \/ StepsMigrations
  \/ ResolvePreferred \/ ResolveCurrent \/ ResolveProbe
  \/ RunLogCommand \/ RunStart \/ RunWait

HelperSpec == HelperInit /\ [][HelperNext]_vars

\* ------------------------------------------- two calls on worker threads
\* The chat handler dispatches run_update and rollback(settings, None) with
\* asyncio.to_thread; updater.py takes no lock, so the statements of the two
\* calls interleave freely.  pc, loc and res hold one entry per thread (u for
\* run_update, r for rollback); loc.overlap records that one thread has taken
\* a step while the other was inside its call.  Every command exits 0 unless
\* git itself refuses (a pull that cannot fast-forward).
ThreadLoc == [before |-> None, remote |-> None, after |-> None, changed |-> {},
              st |-> EmptyDict, candidate |-> ""]
Inside(p) == p \notin {"idle", "done"}

ConcInit ==
  /\ isRepo = TRUE
  /\ cfg = [update_branch |-> "", restart |-> [mode |-> "NONE", cmd |-> ""]]
  /\ upstream \in {"B", "C"} /\ advances = 0
  /\ originRef = "B"
  /\ \/ /\ head = "B" /\ lastP = "A"
        /\ stateFile = JsonFile(UpdateKeys(Stamp(0), "main", "A", "B"))
     \/ /\ head \in {"B", "X"} /\ lastP = None
        /\ stateFile \in {AbsentFile,
                          JsonFile([k \in {"last_known_good"} |-> "A"])}
  /\ op = "threads"
  /\ pc = [u |-> "idle", r |-> "idle"]
  /\ loc = [u |-> ThreadLoc, r |-> ThreadLoc, overlap |-> FALSE]
  /\ res = [u |-> NoRes, r |-> NoRes]
  /\ exc = None /\ cmds = <<>>
  /\ head0 = head /\ store0 = stateFile /\ opCount = 0 /\ prev = NoPrev

\* Thread t moves from `here` to `next`.
Step(t, here, next) ==
  /\ op = "threads" /\ pc[t] = here
  /\ pc' = [pc EXCEPT ![t] = next]
Overlapping(t) == loc.overlap \/ Inside(pc[IF t = "u" THEN "r" ELSE "u"])
Keep(t) == loc' = [loc EXCEPT !.overlap = Overlapping(t)]

\* telegram_handler.py line 2029: asyncio.to_thread(run_update, settings)
TUStart ==
  /\ Step("u", "idle", "before") /\ Keep("u")
  /\ UNCHANGED <<head, originRef, stateFile, env, op, res, exc, cmds,
                 head0, store0, opCount, lastP, prev>>
\* line 544
TUBefore ==
  /\ Step("u", "before", "fetch")
  /\ loc' = [loc EXCEPT !.u.before = head, !.overlap = Overlapping("u")]
  /\ cmds' = Append(cmds, "git show")
  /\ UNCHANGED <<head, originRef, stateFile, env, op, res, exc, head0, store0, opCount, lastP, prev>>
\* lines 567-570: resolve the branch, fetch, read origin/<branch>
TUFetch ==
  /\ Step("u", "fetch", "check")
  /\ originRef' = upstream
  /\ loc' = [loc EXCEPT !.u.remote = upstream, !.overlap = Overlapping("u")]
  /\ cmds' = Append(cmds, "git fetch")
  /\ UNCHANGED <<head, stateFile, env, op, res, exc, head0, store0, opCount, lastP, prev>>
\* lines 573-588: equal revisions return at once; else list the changed files
TUCheck ==
  /\ op = "threads" /\ pc.u = "check"
  /\ IF loc.u.before = loc.u.remote
     THEN /\ pc' = [pc EXCEPT !.u = "done"]
          /\ res' = [res EXCEPT !.u = [NoRes EXCEPT !.kind = "update", !.ok = TRUE,
                                         !.before = loc.u.before, !.after = loc.u.before,
                                         !.steps = <<"no updates">>]]
          /\ Keep("u")
     ELSE /\ pc' = [pc EXCEPT !.u = "pull"]
          /\ loc' = [loc EXCEPT !.u.changed = DiffNames(head, originRef),
                                !.overlap = Overlapping("u")]
          /\ res' = res
  /\ UNCHANGED <<head, originRef, stateFile, env, op, exc, cmds, head0, store0, opCount, lastP, prev>>
\* line 589: git pull --ff-only; a refused pull raises into the handler
\* (lines 622-635), which returns ok=False
TUPull ==
  /\ op = "threads" /\ pc.u = "pull"
  /\ cmds' = Append(cmds, "git pull")
  /\ Keep("u")
  /\ IF PullCanSucceed
     THEN /\ head' = PulledHead /\ originRef' = upstream
          /\ pc' = [pc EXCEPT !.u = "steps"]
          /\ res' = res
     ELSE /\ UNCHANGED <<head, originRef>>
          /\ pc' = [pc EXCEPT !.u = "done"]
          /\ res' = [res EXCEPT !.u = [NoRes EXCEPT !.kind = "update", !.ok = FALSE,
                                         !.before = loc.u.before, !.after = head,
                                         !.error = ErrCommand]]
  /\ UNCHANGED <<stateFile, env, op, exc, head0, store0, opCount, lastP, prev>>
\* lines 590-597: the selected post-update commands; no restart is configured
TUSteps ==
  /\ Step("u", "steps", "after") /\ Keep("u")
  /\ cmds' = cmds \o
       SelectSeq(<<RequirementsCmd(loc.u.changed, TreeFiles),
                   NodeCmd(loc.u.changed, TreeFiles, ToolsOnPath),
                   MigrationCmd(loc.u.changed, TreeFiles)>>,
                 LAMBDA c : c # None)
  /\ UNCHANGED <<head, originRef, stateFile, env, op, res, exc, head0, store0, opCount, lastP, prev>>
\* line 598
TUAfter ==
  /\ Step("u", "after", "save")
  /\ loc' = [loc EXCEPT !.u.after = head, !.overlap = Overlapping("u")]
  /\ cmds' = Append(cmds, "git show")
  /\ UNCHANGED <<head, originRef, stateFile, env, op, res, exc, head0, store0, opCount, lastP, prev>>
\* lines 599-608: load, update, save
TUSave ==
  /\ Step("u", "save", "return") /\ Keep("u")
  /\ stateFile' = JsonFile(Update(LoadState(stateFile),
                                  UpdateKeys(Stamp(1), "main", loc.u.before, loc.u.after)))
  /\ UNCHANGED <<head, originRef, env, op, res, exc, cmds, head0, store0, opCount, lastP, prev>>
\* lines 609-621
TUReturn ==
  /\ Step("u", "return", "done") /\ Keep("u")
  /\ res' = [res EXCEPT !.u = [NoRes EXCEPT !.kind = "update", !.ok = TRUE,
                                 !.before = loc.u.before, !.after = loc.u.after]]
  /\ UNCHANGED <<head, originRef, stateFile, env, op, exc, cmds, head0, store0, opCount, lastP, prev>>

\* telegram_handler.py line 2067: asyncio.to_thread(rollback, settings, None)
TRStart ==
  /\ Step("r", "idle", "before") /\ Keep("r")
  /\ UNCHANGED <<head, originRef, stateFile, env, op, res, exc, cmds,
                 head0, store0, opCount, lastP, prev>>
\* line 641
TRBefore ==
  /\ Step("r", "before", "candidate")
  /\ loc' = [loc EXCEPT !.r.before = head, !.overlap = Overlapping("r")]
  /\ cmds' = Append(cmds, "git show")
  /\ UNCHANGED <<head, originRef, stateFile, env, op, res, exc, head0, store0, opCount, lastP, prev>>
\* lines 659-672: load the record, choose the candidate
TRCandidate ==
  /\ op = "threads" /\ pc.r = "candidate"
  /\ LET state == LoadState(stateFile)
         candidate == RollbackCandidate(None, state)
     IN /\ loc' = [loc EXCEPT !.r.st = state, !.r.candidate = candidate,
                              !.overlap = Overlapping("r")]
        /\ IF candidate = ""
           THEN /\ pc' = [pc EXCEPT !.r = "done"]
                /\ res' = [res EXCEPT !.r = [NoRes EXCEPT !.kind = "rollback",
                                               !.ok = FALSE, !.before = loc.r.before,
                                               !.after = loc.r.before,
                                               !.error = ErrRollbackUnknown]]
           ELSE /\ pc' = [pc EXCEPT !.r = "reset"]
                /\ res' = res
  /\ UNCHANGED <<head, originRef, stateFile, env, op, exc, cmds, head0, store0, opCount, lastP, prev>>
\* lines 673-675: git reset --hard candidate
TRReset ==
  /\ Step("r", "reset", "after") /\ Keep("r")
  /\ head' = loc.r.candidate
  /\ cmds' = Append(cmds, "git reset")
  /\ UNCHANGED <<originRef, stateFile, env, op, res, exc, head0, store0, opCount, lastP, prev>>
\* TRAfter that reports the revision read at line 641.
TRAfterStale ==
  /\ Step("r", "after", "save")
  /\ loc' = [loc EXCEPT !.r.after = loc.r.before, !.overlap = Overlapping("r")]
  /\ cmds' = Append(cmds, "git show")
  /\ UNCHANGED <<head, originRef, stateFile, env, op, res, exc, head0, store0, opCount, lastP, prev>>
\* line 682
TRAfter ==
  /\ Step("r", "after", "save")
  /\ loc' = [loc EXCEPT !.r.after = head, !.overlap = Overlapping("r")]
  /\ cmds' = Append(cmds, "git show")
  /\ UNCHANGED <<head, originRef, stateFile, env, op, res, exc, head0, store0, opCount, lastP, prev>>
\* lines 683-691: update and save the record loaded at line 659
TRSave ==
  /\ Step("r", "save", "return") /\ Keep("r")
  /\ stateFile' = JsonFile(Update(loc.r.st, RollbackKeys(Stamp(2), loc.r.after)))
  /\ UNCHANGED <<head, originRef, env, op, res, exc, cmds, head0, store0, opCount, lastP, prev>>
\* lines 692-702
TRReturn ==
  /\ Step("r", "return", "done") /\ Keep("r")
  /\ res' = [res EXCEPT !.r = [NoRes EXCEPT !.kind = "rollback", !.ok = TRUE,
                                 !.target_commit = loc.r.candidate,
                                 !.before = loc.r.before, !.after = loc.r.after]]
  /\ UNCHANGED <<head, originRef, stateFile, env, op, exc, cmds, head0, store0, opCount, lastP, prev>>

ConcNext ==
  \/ TUStart \/ TUBefore \/ TUFetch \/ TUCheck \/ TUPull \/ TUSteps \/ TUAfter
  \/ TUSave \/ TUReturn
  \/ TRStart \/ TRBefore \/ TRCandidate \/ TRReset \/ TRAfter \/ TRSave \/ TRReturn

ConcSpec == ConcInit /\ [][ConcNext]_vars

\* --------------------------------------------------------- chat handler
\* _handle_callback of telegram_handler.py for one callback query, and the
\* two flows it starts.  loc holds the callback (data, sender, chat), the
\* configured owner, the operations invoked and the messages sent.
CallbackData ==
  {"update:run", "update:rollback:ask", "update:rollback:run",
   "update:rollback:cancel", "update:changes", "panel:home"}
ChatUsers == {"owner", "admin", "stranger", None}
\* auth.py line 4: user_id in settings.all_authorized_user_ids
IsAuthorized(user, owner_user_id) ==
  user # None /\ (user = "admin" \/ (owner_user_id # None /\ user = owner_user_id))
\* IsOwner that takes every sender for the owner.
IsOwnerAnyone(user, owner_user_id) == TRUE
\* auth.py line 10: user_id and owner_user_id and user_id == owner_user_id
IsOwner(user, owner_user_id) ==
  user # None /\ owner_user_id # None /\ user = owner_user_id
\* read_update_log_tail(settings, *, lines=40) takes one positional argument;
\* the flows call it with two.
LogTailPositional == 1
LogTailCallArgs == 2
ErrTypeError == "TypeError: read_update_log_tail() takes 1 positional argument"

ChatLoc ==
  [data |-> "", user |-> None, chat |-> FALSE, owner_user_id |-> None,
   flow |-> "", invoked |-> <<>>, sent |-> <<>>, result |-> ""]

ChatInit ==
  /\ isRepo = TRUE
  /\ upstream = "A" /\ advances = 0 /\ head = "A" /\ originRef = "A"
  /\ stateFile = AbsentFile /\ lastP = None
  /\ cfg = [update_branch |-> "", restart |-> [mode |-> "NONE", cmd |-> ""]]
  /\ res = NoRes /\ exc = None /\ cmds = <<>>
  /\ head0 = head /\ store0 = stateFile /\ opCount = 0 /\ prev = NoPrev
  /\ op = "chat" /\ pc = "cb_authorize"
  /\ \E data \in CallbackData, user \in ChatUsers, chat \in BOOLEAN,
        owner_user_id \in {"owner", None} :
       loc = [ChatLoc EXCEPT !.data = data, !.user = user, !.chat = chat,
                             !.owner_user_id = owner_user_id]

\* _safe_send / _safe_edit_or_send: nothing is sent without a chat id.
Send(text) == IF loc.chat THEN Append(loc.sent, text) ELSE loc.sent
ChatStep(next, sent) ==
  /\ pc' = next
  /\ loc' = [loc EXCEPT !.sent = sent]
  /\ UNCHANGED <<res, exc>>
ChatRaise(e) == /\ pc' = "raised" /\ exc' = e /\ UNCHANGED <<loc, res>>

\* lines 1401-1406
CbAuthorize ==
  /\ op = "chat" /\ pc = "cb_authorize"
  /\ IF IsAuthorized(loc.user, loc.owner_user_id)
     THEN ChatStep("cb_dispatch", loc.sent)
     ELSE ChatStep("done", Send("access denied"))
  /\ UNCHANGED <<head, originRef, stateFile, env, op, cmds,
                 head0, store0, opCount, lastP, prev>>

\* lines 1410-1630: the branch for the callback data
CbDispatch ==
  /\ op = "chat" /\ pc = "cb_dispatch"
  /\ IF loc.data \notin {"update:run", "update:rollback:ask", "update:rollback:run",
                         "update:rollback:cancel", "update:changes"}
     THEN ChatStep("done", Send("panel"))
     ELSE IF ~IsOwner(loc.user, loc.owner_user_id)
     THEN ChatStep("done", Send("owner only"))
     ELSE CASE loc.data = "update:run" ->
                 /\ pc' = "f_notice"
                 /\ loc' = [loc EXCEPT !.flow = "run_update"]
                 /\ UNCHANGED <<res, exc>>
            [] loc.data = "update:rollback:run" ->
                 /\ pc' = "f_notice"
                 /\ loc' = [loc EXCEPT !.flow = "rollback"]
                 /\ UNCHANGED <<res, exc>>
            [] loc.data = "update:rollback:ask" -> ChatStep("done", Send("confirm rollback?"))
            [] loc.data = "update:rollback:cancel" -> ChatStep("done", Send("update panel"))
            [] OTHER -> ChatStep("done", Send("changes"))
  /\ UNCHANGED <<head, originRef, stateFile, env, op, cmds,
                 head0, store0, opCount, lastP, prev>>

\* lines 2026-2028 and 2064-2066
FlowNotice ==
  /\ op = "chat" /\ pc = "f_notice"
  /\ IF ~loc.chat THEN ChatStep("done", loc.sent)
     ELSE ChatStep("f_operation", Send("please wait"))
  /\ UNCHANGED <<head, originRef, stateFile, env, op, cmds,
                 head0, store0, opCount, lastP, prev>>

\* lines 2029 and 2067: the operation on a worker thread; it returns a
\* result or lets an exception escape
FlowOperation ==
  /\ op = "chat" /\ pc = "f_operation"
  /\ \E outcome \in {"ok", "failed", "raised"} :
       IF outcome = "raised"
       THEN /\ pc' = "raised" /\ exc' = ErrTimeout
            /\ loc' = [loc EXCEPT !.invoked = Append(@, loc.flow)]
            /\ res' = res
       ELSE /\ pc' = "f_status"
            /\ loc' = [loc EXCEPT !.invoked = Append(@, loc.flow), !.result = outcome]
            /\ UNCHANGED <<res, exc>>
  /\ UNCHANGED <<head, originRef, stateFile, env, op, cmds,
                 head0, store0, opCount, lastP, prev>>

\* lines 2030 and 2068: get_update_status
FlowStatus ==
  /\ op = "chat" /\ pc = "f_status"
  /\ \E outcome \in {"ok", "raised"} :
       IF outcome = "raised" THEN ChatRaise(ErrTimeout)
       ELSE ChatStep("f_tail", loc.sent)
  /\ UNCHANGED <<head, originRef, stateFile, env, op, cmds,
                 head0, store0, opCount, lastP, prev>>

\* lines 2031-2061 and 2069-2097: read_update_log_tail(settings, 40), then
\* the message that renders the result
FlowFinish ==
  /\ op = "chat" /\ pc = "f_tail"
  /\ IF LogTailCallArgs > LogTailPositional THEN ChatRaise(ErrTypeError)
     ELSE ChatStep("done", Send("result: " \o loc.result))
  /\ UNCHANGED <<head, originRef, stateFile, env, op, cmds,
                 head0, store0, opCount, lastP, prev>>

ChatNext ==
  \/ CbAuthorize \/ CbDispatch \/ FlowNotice \/ FlowOperation \/ FlowStatus
  \/ FlowFinish

ChatSpec == ChatInit /\ [][ChatNext]_vars
\* The event loop runs the handler's coroutine to its end.
ChatFairSpec == ChatSpec /\ WF_vars(ChatNext)

\* ------------------------------------------------------------------ claims
UpdateKeySet == {"updated_at", "branch", "previous_head", "last_known_good"}
RollbackKeySet == {"rolled_back_at", "rolled_back_to", "last_known_good"}
PostCmds == {"pip install -r requirements.txt", "pnpm install --frozen-lockfile",
             "npm ci", "yarn install --frozen-lockfile", "alembic upgrade head",
             "manage.py migrate --noinput"}
RestartCmds == {"restart", "sudo restart"}
ReadOnlyCmds == {"git show", "git rev-parse"}
RanAny(names) == \E i \in 1..Len(cmds) : cmds[i] \in names
Ended == pc \in {"done", "raised"}
Stored0(k) == Get(LoadState(store0), k)
\* The keys of the record stored at the call's start, other than `keys`, are
\* still stored with the same values.
OtherKeysKept(keys) ==
  /\ stateFile.kind = "json"
  /\ \A k \in DOMAIN LoadState(store0) \ keys :
       k \in DOMAIN stateFile.data /\ stateFile.data[k] = LoadState(store0)[k]

\* C1: after every run_update or rollback that returns ok=true, the result's
\* `after` is the revision HEAD points to at return and, if the call changed
\* HEAD, the stored last_known_good is that revision -- also when the final
\* re-resolution of HEAD returns null.
C1_AfterIsHeadAndRecorded ==
  (pc = "done" /\ res.kind \in {"update", "rollback"} /\ res.ok) =>
    /\ res.after = head
    /\ (head # head0 =>
          /\ stateFile.kind = "json"
          /\ Get(stateFile.data, "last_known_good") = head)

\* C2: if the fast-forward-only pull fails, run_update returns ok=false, HEAD
\* is still the pre-update revision (after == before), no post-update step and
\* no restart command is executed and the State Store is not written.
C2_FailedPullLeavesTree ==
  (op = "update" /\ loc.pull \in {"fail", "timeout", "logpre"} /\ Ended) =>
    /\ pc = "done" /\ ~res.ok
    /\ head = head0
    /\ res.after = res.before
    /\ ~RanAny(PostCmds \cup RestartCmds)
    /\ stateFile = store0

\* C3: whatever step of run_update or rollback fails, and wherever, the call
\* returns a result; no exception propagates to the caller.
C3_NoExceptionEscapes == ~(op \in {"update", "rollback"} /\ pc = "raised")

\* C4: get_update_status never raises, whatever command, probe or network
\* call fails (the is-tracked probe and the recovery path included).
C4_StatusNeverRaises == ~(op = "status" /\ pc = "raised")

\* C5 as stated: whenever HEAD equals the resolved remote revision,
\* run_update returns ok=true with steps == ["no updates"], before == after,
\* no restart required or performed, and has mutated nothing.
C5_EqualAlwaysOk ==
  (op = "update" /\ Ended /\ loc.remote # None /\ loc.before = loc.remote) =>
    /\ pc = "done" /\ res.ok
    /\ res.steps = <<"no updates">>
    /\ res.before = res.after
    /\ ~res.restart_required /\ ~res.restart_performed
    /\ ~RanAny({"git pull"} \cup PostCmds \cup RestartCmds)
    /\ head = head0 /\ stateFile = store0

\* C5 amended: whenever HEAD equals the resolved remote revision, run_update
\* performs no pull, no post-update step, no restart and no State Store
\* write, and leaves HEAD and the State Store unchanged; it returns ok=true
\* with steps == ["no updates"], before == after and no restart required or
\* performed, unless appending "No updates available" to the log fails: then
\* the result it returns is ok=false with the I/O error.
C5_EqualNeverMutates ==
  (op = "update" /\ loc.remote # None /\ loc.before = loc.remote) =>
    /\ ~RanAny({"git pull", "git diff"} \cup PostCmds \cup RestartCmds)
    /\ head = head0 /\ stateFile = store0
    /\ pc \in {"u_check", "handler", "done", "raised"}
    /\ (pc = "done" =>
          IF res.ok
          THEN /\ res.steps = <<"no updates">>
               /\ res.before = res.after /\ res.after = head
               /\ ~res.restart_required /\ ~res.restart_performed
               /\ res.error = None
          ELSE res.error = ErrLogIO /\ res.steps = <<>>)

\* C5 witness: a second run_update in a row has returned "no updates".
C5_Witness ==
  /\ pc = "done" /\ res.kind = "update" /\ res.ok /\ res.steps = <<"no updates">>
  /\ opCount = 2 /\ head = "B" /\ res.remote = "B"

\* C6: every run_update that returns ok=true after a pull has stored
\* previous_head = before, last_known_good = after, branch = the resolved
\* branch and updated_at, every other stored key keeping its value.
C6_SuccessfulUpdateRecorded ==
  (pc = "done" /\ res.kind = "update" /\ res.ok /\ res.steps # <<"no updates">>) =>
    /\ stateFile.kind = "json"
    /\ Get(stateFile.data, "previous_head") = res.before
    /\ Get(stateFile.data, "last_known_good") = res.after
    /\ Get(stateFile.data, "branch") = res.branch
    /\ Get(stateFile.data, "updated_at") = Stamp(opCount)
    /\ OtherKeysKept(UpdateKeySet)

\* A value that is absent, null, empty or whitespace.
Blank(v) == v \in {None, JNull, "", " "}
\* The target the precedence rule names: the first non-blank of the explicit
\* argument, the stored previous_head and the stored last_known_good.
ExpectedTarget ==
  IF ~Blank(loc.target) THEN Strip(loc.target)
  ELSE IF ~Blank(Stored0("previous_head")) THEN Strip(Stored0("previous_head"))
  ELSE IF ~Blank(Stored0("last_known_good")) THEN Strip(Stored0("last_known_good"))
  ELSE ""

\* C7: rollback targets the explicit argument if non-blank, else the stored
\* previous_head if non-blank, else the stored last_known_good if non-blank,
\* else it fails with "Rollback commit is not known"; a lower-priority source
\* is used only when every higher one is absent or blank.
C7_RollbackPrecedence ==
  (op = "rollback" /\ loc.target # Unread) =>
    /\ loc.candidate = ExpectedTarget
    /\ (pc = "done" => res.target_commit = IF ExpectedTarget = "" THEN None
                                          ELSE ExpectedTarget)
    /\ (ExpectedTarget = "" =>
          /\ pc = "done" /\ ~res.ok /\ res.error = ErrRollbackUnknown
          /\ ~RanAny({"git reset"}))
    /\ (res.ok => head = ExpectedTarget)

\* C7 witness: with no explicit target and a null previous_head, a rollback
\* has reset the tree to the stored last_known_good.
C7_Witness ==
  /\ pc = "done" /\ res.kind = "rollback" /\ res.ok
  /\ loc.target = None
  /\ Stored0("previous_head") = JNull /\ Stored0("last_known_good") = " B "
  /\ res.target_commit = "B" /\ head = "B" /\ head0 # "B"

\* The State Store holds neither previous_head nor last_known_good.
HoldsNeither(file) ==
  /\ "previous_head" \notin DOMAIN LoadState(file)
  /\ "last_known_good" \notin DOMAIN LoadState(file)

\* C8 as stated: rollback with no explicit target and neither key stored
\* returns ok=false with the "not known" error and executes no command at
\* all, leaving HEAD and the State Store unchanged.
C8_NoCommandAtAll ==
  (op = "rollback" /\ loc.target = None /\ HoldsNeither(store0)) =>
    /\ pc = "done" /\ ~res.ok /\ res.error = ErrRollbackUnknown
    /\ cmds = <<>>
    /\ head = head0 /\ stateFile = store0

\* C8 amended: rollback with no explicit target and neither key stored runs
\* no reset, no restart and no State Store write and leaves HEAD and the
\* State Store unchanged; the only commands it runs are the two read-only
\* probes before target selection (git show HEAD, git rev-parse); once both
\* have exited 0 it returns ok=false with "Rollback commit is not known".
C8_OnlyReadOnlyProbes ==
  (op = "rollback" /\ loc.target \in {Unread, None} /\ HoldsNeither(store0)) =>
    /\ head = head0 /\ stateFile = store0
    /\ \A i \in 1..Len(cmds) : cmds[i] \in ReadOnlyCmds
    /\ (pc = "done" => ~res.ok /\ res.error \in {ErrRollbackUnknown, ErrNotRepo})
    /\ (loc.target = None =>
          /\ pc = "done" /\ res.error = ErrRollbackUnknown
          /\ res.target_commit = None /\ res.steps = <<>>
          /\ cmds = <<"git show", "git rev-parse">>)

\* C8 witness: such a rollback has returned "Rollback commit is not known".
C8_Witness ==
  /\ op = "rollback" /\ pc = "done" /\ loc.target = None /\ HoldsNeither(store0)
  /\ res.error = ErrRollbackUnknown /\ store0.kind = "corrupt"

\* C9: every rollback that returns ok=true has merged rolled_back_at,
\* rolled_back_to = after and last_known_good = after into the State Store
\* and left every other stored key unchanged.
C9_SuccessfulRollbackRecorded ==
  (pc = "done" /\ res.kind = "rollback" /\ res.ok) =>
    /\ res.after # None
    /\ stateFile.kind = "json"
    /\ Get(stateFile.data, "rolled_back_at") = Stamp(opCount)
    /\ Get(stateFile.data, "rolled_back_to") = res.after
    /\ Get(stateFile.data, "last_known_good") = res.after
    /\ OtherKeysKept(RollbackKeySet)

\* C10: once a successful run_update has written previous_head = P, every
\* rollback without an explicit target targets P until the next successful
\* run_update or rollback completes; failed operations and status queries
\* in between do not change the default target.
C10_DefaultTargetKept ==
  (op = "rollback" /\ loc.target = None /\ lastP # None) => loc.candidate = lastP

MutatingCmds == {"git pull", "git reset"} \cup PostCmds \cup RestartCmds

\* C11: if the current HEAD or the remote branch head cannot be resolved,
\* run_update returns ok=false with "Cannot resolve current/remote commit",
\* before == after, and attempts no pull, post-update step, restart or State
\* Store write.
C11_UnresolvedFailsCleanly ==
  (op = "update" /\ Ended /\ loc.err = ErrCannotResolve
     /\ (loc.before = None \/ loc.remote = None)) =>
    /\ pc = "done" /\ ~res.ok /\ res.error = ErrCannotResolve
    /\ res.before = res.after
    /\ ~RanAny(MutatingCmds)
    /\ head = head0 /\ stateFile = store0

\* C12: when the deployment directory is not a version-controlled tree,
\* get_update_status returns has_updates=false, current=null, remote=null,
\* no commits and a non-empty errors list, without running branch
\* resolution or fetch.
C12_StatusOutsideRepo ==
  (op = "status" /\ ~isRepo /\ Ended) =>
    /\ pc = "done"
    /\ ~res.has_updates /\ res.current = None /\ res.remote = None
    /\ res.commits = <<>> /\ res.errors # <<>>
    /\ cmds = <<"git rev-parse">>

\* C13: when the deployment directory is not a version-controlled tree,
\* run_update and rollback each return ok=false with the not-a-repository
\* diagnostic, before == after, and abort before any fetch, pull, reset,
\* post-update step, restart or State Store write.
C13_MutatorsOutsideRepo ==
  (op \in {"update", "rollback"} /\ ~isRepo /\ Ended) =>
    /\ pc = "done" /\ ~res.ok /\ res.error = ErrNotRepo
    /\ res.before = res.after
    /\ ~RanAny({"git fetch"} \cup MutatingCmds)
    /\ head = head0 /\ stateFile = store0

ModeIsNone == RestartMode(cfg.restart.mode) \in {"", "none"}
InSteps(note, steps) == \E i \in 1..Len(steps) : steps[i] = note
\* The call has passed its restart decision without raising.
PastRestart ==
  /\ op \in {"update", "rollback"}
  /\ \/ pc \in {"after", "save", "logok"}
     \/ pc = "done" /\ res.ok /\ RanAny({"git pull", "git reset"})

\* C14: in run_update and rollback a restart command is executed only if the
\* restart mode is not none and execute_restart is true; when the mode is
\* not none and execute_restart is false the steps contain "restart
\* deferred" and restart_performed is false; in every returned result
\* restart_performed implies restart_required and that a restart command
\* exited 0 during the call.
C14_RestartOnlyWhenAsked ==
  /\ RanAny(RestartCmds) => (op \in {"update", "rollback"} /\ ~ModeIsNone /\ loc.exec)
  /\ (PastRestart /\ ~ModeIsNone /\ ~loc.exec) =>
       /\ InSteps("restart deferred", loc.steps) /\ ~loc.rp
       /\ ~RanAny(RestartCmds)
       /\ (pc = "done" => /\ InSteps("restart deferred", res.steps)
                          /\ ~res.restart_performed /\ res.restart_required)
  /\ (pc = "done" /\ res.kind \in {"update", "rollback"}) =>
       /\ res.restart_required => ~ModeIsNone
       /\ res.restart_performed =>
            /\ res.restart_required /\ loc.exec
            /\ RanAny({RestartExit0})

\* C14 witness: a rollback has restarted the service with systemctl after
\* sudo -n systemctl failed.
C14_Witness ==
  /\ pc = "done" /\ res.kind = "rollback" /\ res.ok /\ res.restart_performed
  /\ RanAny({"sudo restart"}) /\ RanAny({"restart"}) /\ RanAny({RestartExit0})

\* C15 as stated: in every ok=false result of run_update or rollback,
\* `before` is the revision HEAD pointed to when the call started and
\* `after` the revision HEAD points to when it returns.
C15_FailedResultExact ==
  (pc = "done" /\ res.kind \in {"update", "rollback"} /\ ~res.ok) =>
    /\ res.before = head0
    /\ res.after = head

\* C15 amended: in every ok=false result of run_update or rollback,
\* `before` is null or the revision HEAD pointed to when the call started,
\* and `after` is null or the revision HEAD points to when it returns (null
\* when git show could not resolve HEAD at that moment); when both are
\* non-null, after differs from before exactly when the tree moved.
C15_FailedResultBestKnown ==
  (pc = "done" /\ res.kind \in {"update", "rollback"} /\ ~res.ok) =>
    /\ res.before \in {None, head0}
    /\ res.after \in {None, head}
    /\ (res.before # None /\ res.after # None) =>
         ((res.after # res.before) <=> (head # head0))

\* C15 witness: a run_update failed after its pull had moved the tree, and
\* reports both revisions.
C15_Witness ==
  /\ pc = "done" /\ res.kind = "update" /\ ~res.ok
  /\ res.before = head0 /\ res.after = head /\ head # head0

\* C16: when a post-update step fails, no later post-update step and no
\* restart is executed in that run_update call, the State Store is not
\* written, and the call returns ok=false.
C16_FailedStepAborts ==
  (op = "update" /\ loc.stage = "post") =>
    /\ ~RanAny(RestartCmds)
    /\ stateFile = store0
    /\ pc \in {"handler", "done", "raised"}
    /\ (Ended => pc = "done" /\ ~res.ok)

\* C17: if a post-update step or the restart fails after the pull has
\* advanced HEAD, run_update performs no automatic rollback: it returns
\* ok=false with `after` equal to the new revision (different from before)
\* and HEAD stays at the new revision.
C17_NoAutomaticRollback ==
  (op = "update" /\ loc.stage \in {"post", "restart"} /\ head # head0) =>
    /\ ~RanAny({"git reset"})
    /\ loc.pull = "ok" /\ head = originRef /\ IsAncestor(head0, head)
    /\ (Ended => /\ pc = "done" /\ ~res.ok
                 /\ res.after = head /\ res.after # res.before)

ClosedModes == {"none", "systemd", "docker_compose", "pm2", "custom"}
UnknownMode == RestartMode(cfg.restart.mode) \notin ClosedModes \cup {""}

\* C18: with a restart mode outside {none, systemd, docker_compose, pm2,
\* custom}, a run_update that pulled and a rollback that reset the tree
\* report a configuration error (ok=false), whether execute_restart is true
\* or false; the mode is never treated as a deferred restart with ok=true.
C18_UnknownModeIsError ==
  (pc = "done" /\ res.kind \in {"update", "rollback"} /\ UnknownMode
     /\ (loc.pull = "ok" \/ InSteps("git reset --hard", res.steps))) =>
    /\ ~res.ok
    /\ ~InSteps("restart deferred", res.steps)

\* C19: saving the State Store is atomic: whatever happens during a save, a
\* file that held a complete record holds that record or a complete new
\* one, never an empty, truncated or unparseable text.
C19_SaveIsAtomic == store0.kind = "json" => stateFile.kind = "json"

\* Keys of the record stored at the call's start that the controller does
\* not write.
UnknownKeys == DOMAIN LoadState(store0) \ (UpdateKeySet \cup RollbackKeySet)

\* C20: saving the record just loaded leaves the stored record unchanged:
\* every key of a parseable State Store that the controller does not know
\* is still stored, with its value, after the save of a run_update or a
\* rollback (saves interrupted by a disk I/O error aside).
C20_UnknownKeysSurvive ==
  (op \in {"update", "rollback"} /\ store0.kind = "json" /\ loc.err # ErrStateIO) =>
    \A k \in UnknownKeys :
      /\ k \in DOMAIN LoadState(stateFile)
      /\ LoadState(stateFile)[k] = LoadState(store0)[k]

\* C24: in every UpdateStatus returned by get_update_status, has_updates is
\* true if and only if current and remote are both resolved and differ; the
\* commits list is non-empty only when has_updates is true and never holds
\* more than 30 entries.
C24_HasUpdatesExact ==
  (pc = "done" /\ res.kind = "status") =>
    /\ res.has_updates <=>
         (res.current # None /\ res.remote # None /\ res.current # res.remote)
    /\ (res.commits # <<>> => res.has_updates)
    /\ Len(res.commits) <= 30
    /\ \A i \in 1..Len(res.commits) :
         IsAncestor(res.commits[i], res.remote) /\ ~IsAncestor(res.commits[i], res.current)

\* C24 witness: more than 30 commits separate HEAD from the remote tip, and
\* the status lists the newest 30 of them.
C24_Witness ==
  /\ pc = "done" /\ res.kind = "status" /\ res.has_updates
  /\ res.current = "B" /\ res.remote = "C"
  /\ Len(res.commits) = 30 /\ res.commits[30] = "C"

\* C25: get_update_status is read-only with respect to the deployment: for
\* every starting state and every outcome of its commands, HEAD and the
\* State Store are the same during and after the call as before it.
C25_StatusReadOnly ==
  (op = "status") => (head = head0 /\ stateFile = store0)

\* C25 witness: a status query has fetched, found updates and listed them.
C25_Witness ==
  /\ op = "status" /\ pc = "done" /\ res.has_updates /\ res.commits # <<>>
  /\ RanAny({"git fetch"}) /\ RanAny({"git log"})
  /\ store0.kind = "json" /\ head0 = "A"

\* C21: loading the State Store never raises and yields the empty record
\* when the file is absent, unreadable, not valid JSON or not a JSON object;
\* the caller goes on as if nothing had been stored: a rollback takes its
\* candidate from the explicit target alone (and answers "not known" without
\* one), and a completed save holds exactly the keys the caller writes.
C21_LoadFallsBackToEmpty ==
  (store0.kind # "json") =>
    /\ (op = "rollback" /\ loc.target # Unread) =>
         /\ loc.st = EmptyDict
         /\ loc.candidate = Strip(OrEmpty(loc.target))
         /\ (loc.candidate = "" =>
               pc = "done" /\ ~res.ok /\ res.error = ErrRollbackUnknown)
    /\ (op = "rollback" /\ pc = "done" /\ res.ok /\ res.after # None) =>
         (stateFile.kind = "json" /\ DOMAIN stateFile.data = RollbackKeySet)
    /\ (op = "update" /\ pc = "done" /\ res.ok /\ RanAny({"git pull"})) =>
         (stateFile.kind = "json" /\ DOMAIN stateFile.data = UpdateKeySet)

\* C21 witness: a rollback without a target over an unreadable State Store
\* that holds both revisions has answered that no rollback commit is known.
C21_Witness ==
  /\ op = "rollback" /\ pc = "done" /\ store0.kind = "unreadable"
  /\ DOMAIN store0.data # {} /\ loc.target = None
  /\ ~res.ok /\ res.error = ErrRollbackUnknown

\* The post-update commands selected for the changed files of this call.
SelectedPost ==
  { RequirementsCmd(loc.changed, TreeFiles),
    NodeCmd(loc.changed, TreeFiles, ToolsOnPath),
    MigrationCmd(loc.changed, TreeFiles) } \ {None}
RanBefore(names, i) == \E j \in 1..(i - 1) : cmds[j] \in names
AllPostDone == Len(loc.post) = Cardinality(SelectedPost) /\ loc.stage # "post"

\* C28: within one run_update call the steps occur only in the order check,
\* pull, post-update steps, restart (optional), State Store write, done: the
\* pull starts only after the check found two different revisions, no
\* post-update command starts before the pull has succeeded, no restart
\* command starts before every selected post-update step has succeeded, the
\* State Store is written only after the restart, if one was to be executed,
\* has succeeded, and after a failure of any step the call takes no further
\* step and never ends with ok=true.
C28_StepsInOrder ==
  (op = "update") =>
    /\ \A i \in 1..Len(cmds) :
         /\ cmds[i] = "git pull" =>
              /\ RanBefore({"git fetch"}, i)
              /\ loc.before # None /\ loc.remote # None /\ loc.before # loc.remote
         /\ cmds[i] \in PostCmds =>
              /\ RanBefore({"git pull"}, i) /\ loc.pull = "ok"
              /\ cmds[i] \in SelectedPost
         /\ cmds[i] \in RestartCmds =>
              /\ loc.pull = "ok" /\ AllPostDone
              /\ \A c \in SelectedPost : RanBefore({c}, i)
    /\ (stateFile # store0) =>
         /\ loc.pull = "ok" /\ AllPostDone /\ loc.stage # "restart"
         /\ \A c \in SelectedPost : RanAny({c})
         /\ (loc.rr /\ loc.exec) => (loc.rp /\ RanAny({RestartExit0}))
         /\ pc \in {"logok", "handler", "done", "raised"}
    /\ (loc.err # None) =>
         /\ pc \in {"handler", "done", "raised"}
         /\ (pc = "done" => ~res.ok)
    /\ (pc = "done" /\ res.ok /\ loc.pull = "ok") => stateFile # store0

\* C28 witness: a run_update that pulled, ran two post-update commands,
\* restarted and wrote the State Store has returned ok=true.
C28_Witness ==
  /\ op = "update" /\ pc = "done" /\ res.ok /\ stateFile # store0
  /\ Cardinality(SelectedPost) >= 2 /\ RanAny(RestartCmds) /\ loc.rp

InstallerCmds == {"pip install -r requirements.txt"}
NodeCmds == {"pnpm install --frozen-lockfile", "npm ci", "yarn install --frozen-lockfile"}
MigrationCmds == {"alembic upgrade head", "manage.py migrate --noinput"}
TimesRan(names) == Cardinality({i \in 1..Len(cmds) : cmds[i] \in names})
\* A changed path that is the manifest, a known lockfile, or a migration
\* marker path: under a directory named migrations or alembic, or the
\* migration tool's configuration file, at the root or below it.
IsManifest(path) == path = <<"requirements.txt">>
IsLockfile(path) ==
  path[Len(path)] \in {"pnpm-lock.yaml", "package-lock.json", "yarn.lock"}
UnderMigrations(path) ==
  \E i \in 1..(Len(path) - 1) : Lower(path[i]) \in {"migrations", "alembic"}
IsMigrationPath(path) ==
  UnderMigrations(path) \/ Lower(path[Len(path)]) = "alembic.ini"

\* C22: for every set of changed paths, one run of the post-update steps
\* executes at most one host-runtime dependency installer, at most one
\* lockfile-driven install and at most one migration command, and no command
\* at all when no changed path is a manifest, a known lockfile or a
\* migration marker path.
C22_AtMostOneEachNoneWithoutMarker ==
  (op = "steps") =>
    /\ TimesRan(InstallerCmds) <= 1
    /\ TimesRan(NodeCmds) <= 1
    /\ TimesRan(MigrationCmds) <= 1
    /\ (~(\E p \in loc.changed : IsManifest(p) \/ IsLockfile(p) \/ IsMigrationPath(p))
          => cmds = <<>>)

\* The node candidate the priority order pnpm, npm, yarn selects: the first
\* whose lockfile changed, exists in the tree and whose manager is installed.
Applies(lockfile, manager) ==
  /\ <<lockfile>> \in loc.changed /\ <<lockfile>> \in loc.tree
  /\ manager \in loc.tools
ExpectedNode ==
  CASE Applies("pnpm-lock.yaml", "pnpm") -> "pnpm install --frozen-lockfile"
    [] ~Applies("pnpm-lock.yaml", "pnpm") /\ Applies("package-lock.json", "npm") -> "npm ci"
    [] ~Applies("pnpm-lock.yaml", "pnpm") /\ ~Applies("package-lock.json", "npm")
       /\ Applies("yarn.lock", "yarn") -> "yarn install --frozen-lockfile"
    [] OTHER -> None

\* C29: candidates are checked in a fixed priority order and the first
\* applicable one is the only one run: pnpm, then npm, then yarn for the
\* lockfiles (an inapplicable candidate falls through to the next), and
\* alembic (alembic.ini present) before manage.py for the migrations.
C29_FirstApplicableOnly ==
  (op = "steps") =>
    /\ \A i \in 1..Len(cmds) :
         /\ cmds[i] \in NodeCmds => cmds[i] = ExpectedNode
         /\ cmds[i] = "alembic upgrade head" => <<"alembic.ini">> \in loc.tree
         /\ cmds[i] = "manage.py migrate --noinput" =>
              (<<"alembic.ini">> \notin loc.tree /\ <<"manage.py">> \in loc.tree)
    /\ TimesRan(NodeCmds) <= 1 /\ TimesRan(MigrationCmds) <= 1
    /\ (pc \in {"p_migrations", "done"} /\ ExpectedNode # None) =>
         RanAny({ExpectedNode})
    /\ (pc = "done" /\ (\E p \in loc.changed : MigrationMarker(p))
        /\ (<<"alembic.ini">> \in loc.tree \/ <<"manage.py">> \in loc.tree)) =>
         RanAny(MigrationCmds)

\* C29 witness: pnpm's lockfile changed but pnpm is not installed, so the
\* steps fell through to npm and ran `npm ci` alone.
C29_Witness ==
  /\ op = "steps" /\ pc = "done"
  /\ {<<"pnpm-lock.yaml">>, <<"package-lock.json">>} \subseteq loc.changed
  /\ {<<"pnpm-lock.yaml">>, <<"package-lock.json">>} \subseteq loc.tree
  /\ "pnpm" \notin loc.tools /\ "npm" \in loc.tools
  /\ cmds = <<"npm ci">>

\* C30: if any changed path sits under a migrations directory or is a known
\* migration-tool marker file (the tool's configuration file at the
\* repository root included) and a migration tool is present in the tree,
\* the post-update steps run that tool's migration command.
C30_MarkerRunsMigration ==
  (/\ op = "steps" /\ pc = "done"
   /\ \E p \in loc.changed : IsMigrationPath(p)
   /\ (<<"alembic.ini">> \in loc.tree \/ <<"manage.py">> \in loc.tree)) =>
    RanAny(MigrationCmds)

\* The candidate order of the claim, with `current` the checked-out branch.
ClaimedCandidates ==
  (IF Strip(cfg.update_branch) # "" THEN <<Strip(cfg.update_branch)>> ELSE <<>>)
    \o <<loc.current, "main", "master">>
BothReadsTrue ==
  /\ loc.cur2 = loc.current
  /\ Strip(cfg.update_branch) = "" => loc.cur1 = loc.current

\* C23: resolve_branch tries [configured branch if non-empty, current
\* branch, "main", "master"] in this order and returns the first candidate
\* whose remote branch exists; with no configured branch, current branch
\* feature-x, main present remotely and master absent it returns feature-x
\* if feature-x exists remotely and main otherwise.
C23_FirstExistingCandidate ==
  (op = "resolve" /\ pc = "done" /\ BothReadsTrue) =>
    /\ (\E i \in 1..Len(ClaimedCandidates) : ClaimedCandidates[i] \in loc.exists) =>
         \E i \in 1..Len(ClaimedCandidates) :
           /\ res.branch = ClaimedCandidates[i]
           /\ ClaimedCandidates[i] \in loc.exists
           /\ \A j \in 1..(i - 1) : ClaimedCandidates[j] \notin loc.exists
    /\ (/\ Strip(cfg.update_branch) = "" /\ loc.current = "feature-x"
        /\ "main" \in loc.exists /\ "master" \notin loc.exists) =>
         res.branch = IF "feature-x" \in loc.exists THEN "feature-x" ELSE "main"

\* C23 witness: no branch configured, feature-x checked out and absent on
\* the remote, main present and master absent: resolved to main.
C23_Witness ==
  /\ op = "resolve" /\ pc = "done" /\ BothReadsTrue
  /\ Strip(cfg.update_branch) = "" /\ loc.current = "feature-x"
  /\ loc.exists = {"main", "dev"} /\ res.branch = "main"

\* C26: when an external command exceeds its timeout the Command Runner
\* fails with a timed-out error and, by the time it returns that failure,
\* the child process and every process of its process group have been
\* terminated.
C26_TimeoutLeavesNoProcess ==
  (op = "run" /\ pc = "raised" /\ exc = ErrTimeout) => loc.procs = {}

BothReturnedOk ==
  /\ op = "threads" /\ pc.u = "done" /\ pc.r = "done"
  /\ res.u.ok /\ res.r.ok

\* C27: the controller holds no lock, so a run_update and a rollback
\* dispatched to worker threads interleave their steps.  Two calls that do
\* not overlap and both return ok=true leave last_known_good equal to HEAD
\* and keep each other's keys; the witness is an interleaving in which both
\* return ok=true while last_known_good differs from HEAD.
C27_SerialCallsAgree ==
  (BothReturnedOk /\ ~loc.overlap) =>
    /\ stateFile.kind = "json"
    /\ Get(stateFile.data, "last_known_good") = head
    /\ Get(stateFile.data, "rolled_back_to") = res.r.after
    /\ res.u.steps = <<>> => Get(stateFile.data, "previous_head") = res.u.before

\* C27 witness: both calls returned ok=true after their steps interleaved,
\* and the stored last_known_good is not the revision HEAD points to.
C27_Witness ==
  /\ BothReturnedOk /\ loc.overlap
  /\ stateFile.kind = "json"
  /\ Get(stateFile.data, "last_known_good") # head
  /\ Get(stateFile.data, "last_known_good") = res.u.after
  /\ head = res.r.after

\* C32: whenever run_update returns ok=true after advancing HEAD from A to B
\* and the root dependency manifest differs between A and B, the dependency
\* installer was executed exactly once during that call, for every outcome
\* of the changed-file listing.
C32_ChangedManifestInstalled ==
  (/\ pc = "done" /\ res.kind = "update" /\ res.ok /\ head # head0
   /\ <<"requirements.txt">> \in DiffNames(head0, head)
   /\ <<"requirements.txt">> \in TreeFiles) =>
    TimesRan(InstallerCmds) = 1

\* C33: whenever run_update returns ok=true with steps other than
\* ["no updates"], after.full_hash equals remote.full_hash, also when the
\* remote branch advances between the call's fetch and its pull and when the
\* local HEAD is ahead of the remote.
C33_AfterIsRemote ==
  (pc = "done" /\ res.kind = "update" /\ res.ok /\ res.steps # <<"no updates">>) =>
    res.after = res.remote

\* C36: every run_update or rollback call that returns ok=false leaves the
\* State Store exactly as it was before the call, wherever the failure
\* occurred.
C36_FailureKeepsStore ==
  (pc = "done" /\ res.kind \in {"update", "rollback"} /\ ~res.ok) =>
    stateFile = store0

\* C40: a failed fetch does not fail run_update and is not reported in its
\* result: the call goes on to compare HEAD with the cached remote-tracking
\* revision, any command failure it then reports comes from the pull or a
\* later step, and it can return ok=true with steps ["no updates"] and no
\* error.
C40_FailedFetchIgnored ==
  (op = "update" /\ loc.fetch = "fail") =>
    /\ (loc.err = ErrCommand) => RanAny({"git pull"})
    /\ (pc = "u_remote") => loc.err = None
    /\ (pc = "done" /\ res.steps = <<"no updates">>) =>
         /\ res.ok /\ res.error = None
         /\ res.remote = originRef /\ res.before = res.remote

\* C40 witness: the fetch failed, the remote holds a newer revision than the
\* cached origin/<branch>, and run_update returned ok=true with "no updates".
C40_Witness ==
  /\ op = "update" /\ pc = "done" /\ loc.fetch = "fail"
  /\ res.ok /\ res.steps = <<"no updates">> /\ res.error = None
  /\ upstream # originRef /\ head = originRef /\ IsAncestor(head, upstream)

ConfigErrors == {ErrUnknownMode, ErrCustomEmpty, ErrUnparseable}

\* C39: the restart configuration is validated only when a restart is
\* executed: an unknown mode, or custom mode with an empty or unparseable
\* command, is reported only with execute_restart=true, by run_update only
\* after the pull and every selected post-update step have succeeded and by
\* rollback only after the hard reset has moved HEAD to the candidate; no
\* restart command is executed, and a returned result is ok=false with that
\* error.
C39_ConfigCheckedAtRestart ==
  (op \in {"update", "rollback"} /\ loc.err \in ConfigErrors) =>
    /\ loc.exec /\ loc.stage = "restart"
    /\ RestartPlan(cfg.restart).kind = "error"
    /\ ~RanAny(RestartCmds)
    /\ (op = "update") =>
         /\ loc.pull = "ok" /\ Len(loc.post) = Cardinality(SelectedPost)
         /\ \A c \in SelectedPost : RanAny({c})
    /\ (op = "rollback") => (RanAny({"git reset"}) /\ head = loc.candidate)
    /\ stateFile = store0
    /\ (pc = "done" => ~res.ok /\ res.error = loc.err)

\* C39 witness: custom mode with an empty command; run_update pulled, ran
\* its post-update step and only then returned the configuration error.
C39_Witness ==
  /\ op = "update" /\ pc = "done" /\ ~res.ok /\ res.error = ErrCustomEmpty
  /\ head # head0 /\ RanAny(PostCmds) /\ ~RanAny(RestartCmds)

\* The preceding operation was a run_update that pulled, moved HEAD and then
\* failed in a post-update step or in the restart; the remote tip is still
\* the revision it pulled.
RetryAfterFailedStep ==
  /\ op = "update" /\ prev.stage \in {"post", "restart"}
  /\ upstream = head0

C38_FailedUpdateNotRecorded ==
  (/\ op = "rollback" /\ loc.target = None
   /\ prev.from # None /\ prev.returned) =>
    /\ loc.candidate = RollbackCandidate(None, LoadState(prev.store))
    /\ (loc.candidate = "" =>
          pc = "done" /\ ~res.ok /\ res.error = ErrRollbackUnknown)

\* C31: the Command Runner in strict mode fails on a non-zero exit with a
\* message equal to the command's stderr, or its stdout when stderr is
\* empty; in non-strict mode it returns the completed result for every
\* outcome of the command and never raises.
C31_StrictFailsNonStrictReturns ==
  (op = "run" /\ pc \in {"done", "raised"} /\ loc.exit # "") =>
    /\ (loc.check /\ loc.exit = "fail" /\ exc # ErrLogIO) =>
         /\ pc = "raised"
         /\ exc = IF Strip(loc.stderr) # "" THEN loc.stderr ELSE loc.stdout
    /\ (~loc.check) => (pc = "done" /\ exc = None)

Invoked(name) == \E i \in 1..Len(loc.invoked) : loc.invoked[i] = name

\* C34: the chat handler invokes run_update or rollback only for callbacks
\* from the owner, and rollback only on the confirmation callback
\* update:rollback:run; the request callback, the cancel callback and a
\* callback from a non-owner never invoke an operation.
C34_OwnerAndConfirmationOnly ==
  (op = "chat") =>
    /\ (loc.invoked # <<>> \/ loc.flow # "") =>
         (loc.user = "owner" /\ loc.owner_user_id = "owner")
    /\ (Invoked("rollback") \/ loc.flow = "rollback") => loc.data = "update:rollback:run"
    /\ (Invoked("run_update") \/ loc.flow = "run_update") => loc.data = "update:run"
    /\ Len(loc.invoked) <= 1

\* C34 witness: the owner's confirmation callback has invoked rollback.
C34_Witness ==
  /\ op = "chat" /\ loc.invoked = <<"rollback">>
  /\ loc.data = "update:rollback:run" /\ loc.user = "owner"

Rendered == \E i \in 1..Len(loc.sent) : loc.sent[i] \in {"result: ok", "result: failed"}

\* C35: every run_update or rollback started through the chat handler is
\* eventually followed by a message to the operator that renders the
\* structured result; the flow does not abort between the operation
\* returning and the result being sent.
C35_ResultEventuallyRendered ==
  (op = "chat" /\ loc.invoked # <<>> /\ loc.result # "") ~> Rendered

====
